---- MODULE Spec2Model ----
(***************************************************************************)
(* Model of the gutter estimation core (backend/services/                  *)
(* gutter_calculator.py), of the request that calls it                     *)
(* (backend/services/roof_classifier.py), of invocations that run at the   *)
(* same time on the one shared service instance, and of the two geometry   *)
(* predictions of the classifier.                                          *)
(*                                                                         *)
(* Number representation.  The program computes with Python floats; the    *)
(* model computes with integers in fixed units, and its divisions and      *)
(* roots go to the nearest unit:                                           *)
(*   lengths      decimetres (0.1 m); a name ending in _m holds decimetres *)
(*   areas        whole square metres                                      *)
(*   angles       pitch and latitude in whole degrees, azimuth in          *)
(*                millionths of a degree                                   *)
(*   coordinates  1e-5 degree                                              *)
(*   factors      waste factor, range percentage and confidence in 1/1000, *)
(*                complexity factor in 1/10                                *)
(*   feet         whole feet for total_gutter_ft, 1/100 ft for             *)
(*                eave_length_ft                                           *)
(* Products that would pass 2^31 are split in two limbs (BigMul).          *)
(***************************************************************************)
EXTENDS Integers, Sequences, FiniteSets, TLC

VARIABLES
    pc,                  \* where the current invocation stands
    building_data,       \* the building data of the current invocation
    roof_classification, \* the roof classification handed to the calculator
    estimate,            \* what estimate_gutter_feet returned (or that it raised)
    waste_call,          \* arguments and result of a direct waste-factor call
    estimate_locals,     \* the locals of estimate_gutter_feet at its return
    flow,                \* classify_roof_type: the steps taken by the request
    instance,            \* the attributes of the shared GutterCalculatorService
    calls,               \* concurrent invocations: arguments, position, result
    frames,              \* concurrent invocations: the locals of each
    prediction           \* the roof types the geometry of a building predicts

vars ==
    <<pc, building_data, roof_classification, estimate, estimate_locals,
      waste_call, flow, instance, calls, frames, prediction>>

\* the state of the concurrent invocations
concurrent == <<instance, calls, frames>>

----------------------------------------------------------------------------
(* Bounds of the explored inputs *)

\* longest roofSegmentStats list explored
MaxSegs == 5

\* largest segment count handed to a direct _calculate_dynamic_waste_factor call
MaxSegmentCount == 10

----------------------------------------------------------------------------
(* Program constants *)

MetersPerDegLat == 111132

MetersPerDegLonEquator == 111320

DefaultLatitude == 40

MinPerimeter == 20

MaxPerimeter == 200

FeetPerMeterE5 == 328084

MaxWaste == 60

MinWaste == 10

FeetPerDownspout == 45

----------------------------------------------------------------------------
(* Arithmetic *)

Max2(a, b) == IF a >= b THEN a ELSE b

Min2(a, b) == IF a <= b THEN a ELSE b

Abs(a) == IF a < 0 THEN -a ELSE a

\* ceil(a / b) for a >= 0, b > 0
CeilDiv(a, b) == (a + b - 1) \div b

\* a / b to the nearest unit, for a >= 0, b > 0
RoundDiv(a, b) == (2 * a + b) \div (2 * b)

RECURSIVE SqrtSearch(_, _, _)
SqrtSearch(n, lo, hi) ==
    IF lo >= hi THEN lo
    ELSE LET mid == (lo + hi + 1) \div 2
         IN  IF mid * mid <= n THEN SqrtSearch(n, mid, hi)
             ELSE SqrtSearch(n, lo, mid - 1)

\* math.sqrt on a non-negative argument, to the nearest unit
ISqrt(n) ==
    LET r == SqrtSearch(n, 0, 46339)
    IN  IF n - r * r > r THEN r + 1 ELSE r

\* math.cos(math.radians(deg)) in 1/10000, for the angles the inputs use
CosE4(deg) ==
    CASE deg = 0  -> 10000
      [] deg = 30 -> 8660
      [] deg = 40 -> 7660
      [] deg = 60 -> 5000

\* x * m as hi * 10000 + lo (x < 2^31, m < 20000), so that the product of a
\* length in micro-feet and a factor does not pass 2^31
BigMul(x, m) ==
    LET p == (x % 10000) * m
    IN  [hi |-> (x \div 10000) * m + (p \div 10000), lo |-> p % 10000]

\* ceil((b.hi * 10000 + b.lo) / (d * 10000))
BigCeilDiv(b, d) ==
    (b.hi \div d) + (IF (b.hi % d) # 0 \/ b.lo # 0 THEN 1 ELSE 0)

\* a length in decimetres as millionths of a foot: x * 3.28084
MicroFeet(len_m) == len_m * FeetPerMeterE5

\* math.ceil(len_m * 3.28084 * (1 + waste)), waste in 1/1000
CeilFeetWithWaste(len_m, waste) ==
    BigCeilDiv(BigMul(MicroFeet(len_m), 1000 + waste), 100000)

----------------------------------------------------------------------------
(* Inputs *)

RoofTypes ==
    {"flat", "shed", "gable", "gambrel", "hip", "mansard", "complex", "unknown"}

\* a roof type string outside the eight known ones
OtherRoofType == "dome"

ExternalRoofTypes == RoofTypes \cup {OtherRoofType}

Corner(lat, lon) == [latitude |-> lat, longitude |-> lon]

\* boundingBox: corners says whether both 'sw' and 'ne' are keys of the box
NoBBox == [corners |-> FALSE, sw |-> Corner(0, 0), ne |-> Corner(0, 0)]

BBox(sw, ne) == [corners |-> TRUE, sw |-> sw, ne |-> ne]

Segment(area, pitch, azimuth, bbox) ==
    [groundAreaMeters2 |-> area, pitchDegrees |-> pitch,
     azimuthDegrees |-> azimuth, boundingBox |-> bbox]

\* a pitched plane known by its area only
SegAreaOnly == Segment(45, 30, 0, NoBBox)

\* a plane with no area and a box of no extent: no method gives it an eave
SegEmpty == Segment(0, 0, 90000000, BBox(Corner(0, 0), Corner(0, 0)))

\* a steep plane with a box of about 9 m by 7 m
SegBoxed == Segment(60, 60, 180000000, BBox(Corner(0, 0), Corner(8, 8)))

\* a plane with no area whose box spans about 112 m; its azimuth differs
\* from 0 only past the fifth decimal
SegHuge == Segment(0, 0, 4, BBox(Corner(0, 0), Corner(101, 101)))

SegmentValues == {SegAreaOnly, SegEmpty, SegBoxed, SegHuge}

SegmentLists == UNION {[1..n -> SegmentValues] : n \in 0..MaxSegs}

\* wholeRoofStats.groundAreaMeters2; 0 stands for an absent or zero value,
\* the negative value lies outside the data model
WholeRoofAreas == {0, 16, 100, 3600, -4}

NoCenter == [present |-> FALSE, latitude |-> 0]

Centers == {NoCenter, [present |-> TRUE, latitude |-> 30]}

BuildingData ==
    [roofSegmentStats : SegmentLists, wholeRoofArea : WholeRoofAreas,
     center : Centers]

NoBuildingData ==
    [roofSegmentStats |-> <<>>, wholeRoofArea |-> 0, center |-> NoCenter]

\* the data model of the specification: areas >= 0, pitch in [0, 90),
\* azimuth in [0, 360)
Conforms(bd) ==
    /\ bd.wholeRoofArea >= 0
    /\ \A i \in 1..Len(bd.roofSegmentStats) :
          LET s == bd.roofSegmentStats[i]
          IN  /\ s.groundAreaMeters2 >= 0
              /\ s.pitchDegrees >= 0 /\ s.pitchDegrees < 90
              /\ s.azimuthDegrees >= 0 /\ s.azimuthDegrees < 360000000

----------------------------------------------------------------------------
(* GutterCalculatorService: roof type validation *)

\* round(az, 5) of an azimuth held in millionths of a degree
Round5(az) == (az + 5) \div 10

RECURSIVE SumAreas(_)
SumAreas(roof_segments) ==
    IF Len(roof_segments) = 0 THEN 0
    ELSE Head(roof_segments).groundAreaMeters2 + SumAreas(Tail(roof_segments))

UniqueAzimuths(roof_segments) ==
    Cardinality({Round5(roof_segments[i].azimuthDegrees) :
                    i \in 1..Len(roof_segments)})

\* validate_roof_type with `unique_azimuths > 3` for `unique_azimuths >= 3`
validate_roof_type_strict_azimuths(roof_type, roof_segments, building_center) ==
    IF Len(roof_segments) = 0 THEN roof_type
    ELSE
      LET segment_count == Len(roof_segments)
          unique_azimuths == UniqueAzimuths(roof_segments)
          total_area == SumAreas(roof_segments)
      IN  IF building_center.present /\ total_area > 0
          THEN IF segment_count = 1
               THEN (IF roof_type # "shed" /\ roof_type # "flat"
                     THEN "shed" ELSE roof_type)
               ELSE IF segment_count = 2
               THEN (IF roof_type # "gable" THEN "gable" ELSE roof_type)
               ELSE IF segment_count >= 4 /\ unique_azimuths > 3
               THEN (IF roof_type \notin {"hip", "mansard", "complex"}
                     THEN "hip" ELSE roof_type)
               ELSE IF segment_count > 4
               THEN (IF roof_type # "complex" THEN "complex" ELSE roof_type)
               ELSE roof_type
          ELSE roof_type

\* validate_roof_type with `segment_count > 5` for `segment_count > 4`
validate_roof_type_late_complex(roof_type, roof_segments, building_center) ==
    IF Len(roof_segments) = 0 THEN roof_type
    ELSE
      LET segment_count == Len(roof_segments)
          unique_azimuths == UniqueAzimuths(roof_segments)
          total_area == SumAreas(roof_segments)
      IN  IF building_center.present /\ total_area > 0
          THEN IF segment_count = 1
               THEN (IF roof_type # "shed" /\ roof_type # "flat"
                     THEN "shed" ELSE roof_type)
               ELSE IF segment_count = 2
               THEN (IF roof_type # "gable" THEN "gable" ELSE roof_type)
               ELSE IF segment_count >= 4 /\ unique_azimuths >= 3
               THEN (IF roof_type \notin {"hip", "mansard", "complex"}
                     THEN "hip" ELSE roof_type)
               ELSE IF segment_count > 5
               THEN (IF roof_type # "complex" THEN "complex" ELSE roof_type)
               ELSE roof_type
          ELSE roof_type

validate_roof_type(roof_type, roof_segments, building_center) ==
    IF Len(roof_segments) = 0 THEN roof_type
    ELSE
      LET segment_count == Len(roof_segments)
          unique_azimuths == UniqueAzimuths(roof_segments)
          total_area == SumAreas(roof_segments)
      IN  IF building_center.present /\ total_area > 0
          THEN IF segment_count = 1
               THEN (IF roof_type # "shed" /\ roof_type # "flat"
                     THEN "shed" ELSE roof_type)
               ELSE IF segment_count = 2
               THEN (IF roof_type # "gable" THEN "gable" ELSE roof_type)
               ELSE IF segment_count >= 4 /\ unique_azimuths >= 3
               THEN (IF roof_type \notin {"hip", "mansard", "complex"}
                     THEN "hip" ELSE roof_type)
               ELSE IF segment_count > 4
               THEN (IF roof_type # "complex" THEN "complex" ELSE roof_type)
               ELSE roof_type
          ELSE roof_type

----------------------------------------------------------------------------
(* GutterCalculatorService: perimeter *)

Latitude(building_center) ==
    IF building_center.present THEN building_center.latitude
    ELSE DefaultLatitude

\* metres per degree of longitude and of latitude
calculate_meters_per_degree(latitude) ==
    [lon |-> RoundDiv(MetersPerDegLonEquator * CosE4(latitude), 10000),
     lat |-> MetersPerDegLat]

\* a span of d coordinate units (1e-5 degree) in decimetres
SpanM(d, meters_per_deg) == RoundDiv(d * meters_per_deg, 10000)

SetMax(S) == CHOOSE x \in S : \A y \in S : y <= x

SetMin(S) == CHOOSE x \in S : \A y \in S : x <= y

BoxedSegments(roof_segments) ==
    {i \in 1..Len(roof_segments) : roof_segments[i].boundingBox.corners}

\* 4 * math.sqrt(ground_area), in decimetres
AreaPerimeter(ground_area) == ISqrt(1600 * ground_area)

\* perimeter of the union of the segments' bounding boxes, 0 without boxes
BBoxPerimeter(roof_segments, building_center) ==
    LET mpd == calculate_meters_per_degree(Latitude(building_center))
        boxed == BoxedSegments(roof_segments)
        all_lats == UNION {{roof_segments[i].boundingBox.sw.latitude,
                            roof_segments[i].boundingBox.ne.latitude} :
                              i \in boxed}
        all_lons == UNION {{roof_segments[i].boundingBox.sw.longitude,
                            roof_segments[i].boundingBox.ne.longitude} :
                              i \in boxed}
    IN  IF boxed = {} THEN 0
        ELSE LET lat_span == SpanM(SetMax(all_lats) - SetMin(all_lats), mpd.lat)
                 lon_span == SpanM(SetMax(all_lons) - SetMin(all_lons), mpd.lon)
             IN  2 * (lat_span + lon_span)

\* abs(bbox_perimeter - estimated_perimeter) / estimated_perimeter < 0.3
WithinThirtyPercent(bbox_perimeter, estimated_perimeter) ==
    10 * Abs(bbox_perimeter - estimated_perimeter) < 3 * estimated_perimeter

\* line 200 without the 30% agreement test: any positive bounding box value
\* replaces the area value
UseBBoxWhenPositive(bbox_perimeter, estimated_perimeter) == bbox_perimeter > 0

\* line 200: the bounding box value replaces the area value
UseBBoxPerimeter(bbox_perimeter, estimated_perimeter) ==
    /\ bbox_perimeter > 0
    /\ \/ estimated_perimeter = 0
       \/ WithinThirtyPercent(bbox_perimeter, estimated_perimeter)

\* the perimeter before the final validation (lines 166-207)
RawPerimeter(roof_segments, building_center, ground_area) ==
    LET method1 == IF ground_area # 0 THEN AreaPerimeter(ground_area) ELSE 0
        bbox_perimeter == BBoxPerimeter(roof_segments, building_center)
        method2 == IF UseBBoxPerimeter(bbox_perimeter, method1)
                   THEN bbox_perimeter ELSE method1
    IN  IF method2 = 0 /\ ground_area > 0 THEN AreaPerimeter(ground_area)
        ELSE method2

\* ClampPerimeter without the `elif estimated_perimeter > 200` branch
ClampPerimeterNoUpper(estimated_perimeter) ==
    IF estimated_perimeter > 0 /\ estimated_perimeter < MinPerimeter * 10
    THEN MinPerimeter * 10
    ELSE estimated_perimeter

\* lines 209-217
ClampPerimeter(estimated_perimeter) ==
    IF estimated_perimeter > 0
    THEN IF estimated_perimeter < MinPerimeter * 10 THEN MinPerimeter * 10
         ELSE IF estimated_perimeter > MaxPerimeter * 10 THEN MaxPerimeter * 10
         ELSE estimated_perimeter
    ELSE estimated_perimeter

\* DivisionEvaluated without the `estimated_perimeter == 0 or` in front of it
DivisionUnguarded(bbox_perimeter, estimated_perimeter) == bbox_perimeter > 0

\* line 200 evaluates its division only when the `and` and the `or` before it
\* do not decide the condition
DivisionEvaluated(bbox_perimeter, estimated_perimeter) ==
    bbox_perimeter > 0 /\ ~(estimated_perimeter = 0)

\* raised: math.sqrt of a negative area raises ValueError (line 170), a
\* division by a zero estimated_perimeter raises ZeroDivisionError (line 200)
calculate_building_perimeter(roof_segments, building_center, whole_roof_area) ==
    LET method1 == IF whole_roof_area > 0 THEN AreaPerimeter(whole_roof_area)
                   ELSE 0
        bbox_perimeter == BBoxPerimeter(roof_segments, building_center)
    IN  IF \/ whole_roof_area < 0
           \/ DivisionEvaluated(bbox_perimeter, method1) /\ method1 = 0
        THEN [raised |-> TRUE, perimeter_m |-> 0, ground_area |-> 0]
        ELSE [raised |-> FALSE,
              perimeter_m |-> ClampPerimeter(
                  RawPerimeter(roof_segments, building_center, whole_roof_area)),
              ground_area |-> whole_roof_area]

----------------------------------------------------------------------------
(* GutterCalculatorService: segments *)

\* Method 1 (lines 240-252): the longer side of the box, over cos(pitch)
BBoxEave(segment, mpd) ==
    LET bbox == segment.boundingBox
        lat_span == SpanM(Abs(bbox.ne.latitude - bbox.sw.latitude), mpd.lat)
        lon_span == SpanM(Abs(bbox.ne.longitude - bbox.sw.longitude), mpd.lon)
        longer == Max2(lat_span, lon_span)
    IN  IF ~bbox.corners THEN 0
        ELSE IF segment.pitchDegrees > 0
             THEN RoundDiv(longer * 10000, CosE4(segment.pitchDegrees))
             ELSE longer

\* in decimetres: sqrt(area) for flat planes, sqrt(area / cos(pitch)) otherwise
calculate_eave_length_from_area(ground_area, pitch_degrees) ==
    IF pitch_degrees <= 0 THEN ISqrt(100 * ground_area)
    ELSE ISqrt(RoundDiv(ground_area * 1000000, CosE4(pitch_degrees)))

\* Method 3 with equal shares instead of area shares: a quarter of the
\* perimeter divided evenly among the segments
ProportionalEaveEqualShares(segment, roof_segments, perimeter_m) ==
    IF SumAreas(roof_segments) > 0
    THEN perimeter_m \div (4 * Len(roof_segments))
    ELSE 0

\* Method 3 (lines 259-264)
ProportionalEave(segment, roof_segments, perimeter_m) ==
    LET total_segment_area == SumAreas(roof_segments)
    IN  IF total_segment_area > 0
        THEN (perimeter_m * segment.groundAreaMeters2) \div (4 * total_segment_area)
        ELSE 0

\* the three methods with the first two in the other order: the area value
\* whenever the area is positive, the bounding box value only without it
SegmentEaveAreaFirst(segment, roof_segments, perimeter_m, mpd) ==
    LET eave1 == IF segment.groundAreaMeters2 > 0
                 THEN calculate_eave_length_from_area(
                          segment.groundAreaMeters2, segment.pitchDegrees)
                 ELSE 0
        eave2 == IF eave1 = 0 THEN BBoxEave(segment, mpd) ELSE eave1
    IN  IF eave2 = 0 /\ perimeter_m > 0
        THEN ProportionalEave(segment, roof_segments, perimeter_m)
        ELSE eave2

\* eave_m of one segment after the three methods (lines 236-264)
SegmentEave(segment, roof_segments, perimeter_m, mpd) ==
    LET eave1 == BBoxEave(segment, mpd)
        eave2 == IF eave1 = 0 /\ segment.groundAreaMeters2 > 0
                 THEN calculate_eave_length_from_area(
                          segment.groundAreaMeters2, segment.pitchDegrees)
                 ELSE eave1
    IN  IF eave2 = 0 /\ perimeter_m > 0
        THEN ProportionalEave(segment, roof_segments, perimeter_m)
        ELSE eave2

\* depth_m is a local of the function, assigned only under eave_m > 0 (line
\* 266): before its first assignment it is unbound, afterwards it keeps the
\* value of the last segment that assigned it
UnboundDepth == [bound |-> FALSE, value |-> 0]

DepthAfter(depth_m, segment, eave_m) ==
    IF eave_m > 0
    THEN [bound |-> TRUE, value |-> (segment.groundAreaMeters2 * 100) \div eave_m]
    ELSE depth_m

\* lines 269-277: reading an unbound depth_m at line 274 raises, the except
\* clause of line 279 logs it and the loop goes on without the segment
AppendProcessed(processed_segments, segment, eave_m, depth_m) ==
    IF ~depth_m.bound THEN processed_segments
    ELSE Append(processed_segments,
                [area_m2 |-> segment.groundAreaMeters2,
                 pitch_degrees |-> segment.pitchDegrees,
                 azimuth |-> segment.azimuthDegrees,
                 eave_m |-> eave_m,
                 depth_m |-> depth_m.value,
                 bbox |-> segment.boundingBox])

\* the locals that outlive one pass of the loop, after the pass for `segment`
LoopLocals(depth_m, processed_segments, segment, eave_m) ==
    [depth_m |-> depth_m,
     processed_segments |->
         AppendProcessed(processed_segments, segment, eave_m, depth_m)]

\* one pass of the for loop of lines 228-281
ProcessSegment(locals, segment, eave_m) ==
    LoopLocals(DepthAfter(locals.depth_m, segment, eave_m),
               locals.processed_segments, segment, eave_m)

\* the for loop with the try statement around it instead of inside it: the
\* first segment that raises ends the loop, the segments processed so far
\* are returned
RECURSIVE ProcessLoopAborting(_, _, _, _, _)
ProcessLoopAborting(roof_segments, i, mpd, perimeter_m, locals) ==
    IF i > Len(roof_segments) THEN locals.processed_segments
    ELSE IF /\ ~locals.depth_m.bound
            /\ SegmentEave(roof_segments[i], roof_segments, perimeter_m, mpd) = 0
    THEN locals.processed_segments
    ELSE ProcessLoopAborting(
             roof_segments, i + 1, mpd, perimeter_m,
             ProcessSegment(locals, roof_segments[i],
                            SegmentEave(roof_segments[i], roof_segments,
                                        perimeter_m, mpd)))

\* the for loop of lines 228-281, from its i-th pass on
RECURSIVE ProcessLoop(_, _, _, _, _)
ProcessLoop(roof_segments, i, mpd, perimeter_m, locals) ==
    IF i > Len(roof_segments) THEN locals.processed_segments
    ELSE ProcessLoop(roof_segments, i + 1, mpd, perimeter_m,
                     ProcessSegment(locals, roof_segments[i],
                                    SegmentEave(roof_segments[i], roof_segments,
                                                perimeter_m, mpd)))

process_roof_segments_improved(roof_segments, building_center, perimeter_m) ==
    ProcessLoop(roof_segments, 1,
                calculate_meters_per_degree(Latitude(building_center)),
                perimeter_m,
                [depth_m |-> UnboundDepth, processed_segments |-> <<>>])

----------------------------------------------------------------------------
(* GutterCalculatorService: eave length, waste factor, downspouts, warnings *)

RECURSIVE SumEaves(_)
SumEaves(processed_segments) ==
    IF Len(processed_segments) = 0 THEN 0
    ELSE Head(processed_segments).eave_m + SumEaves(Tail(processed_segments))

\* lines 336-344 with the cap at the value it tests against: a sum above
\* 1.2 x perimeter is replaced by 1.2 x perimeter
CappedAtMaxEave(segment_eave_sum, perimeter_m) ==
    IF perimeter_m > 0 /\ 10 * segment_eave_sum > 12 * perimeter_m
    THEN (perimeter_m * 12) \div 10
    ELSE segment_eave_sum

\* lines 336-344 without the test against 1.2 x perimeter: the segment sum
\* as it is
SegmentSumAsIs(segment_eave_sum, perimeter_m) == segment_eave_sum

\* lines 336-344: the segment sum, replaced by 0.9 x perimeter when it
\* exceeds 1.2 x perimeter
CappedSegmentSum(segment_eave_sum, perimeter_m) ==
    IF perimeter_m > 0 /\ 10 * segment_eave_sum > 12 * perimeter_m
    THEN (perimeter_m * 9) \div 10
    ELSE segment_eave_sum

\* lines 347-353, in tenths
SegmentCountComplexity(segment_count) ==
    IF segment_count <= 2 THEN 10
    ELSE IF segment_count <= 4 THEN 12
    ELSE 14

\* _calculate_eave_length_improved as it was before the gable fix noted at
\* line 327: a gable roof took 60% of the perimeter
calculate_eave_length_gable_sixty(roof_type, processed_segments, perimeter_m) ==
    IF Len(processed_segments) = 0
    THEN [total_eave_m |-> 0, complexity_factor |-> 10]
    ELSE IF roof_type = "hip" /\ perimeter_m > 0
    THEN [total_eave_m |-> perimeter_m \div 2, complexity_factor |-> 12]
    ELSE IF roof_type = "gable" /\ perimeter_m > 0
    THEN [total_eave_m |-> (perimeter_m * 6) \div 10, complexity_factor |-> 10]
    ELSE [total_eave_m |->
              CappedSegmentSum(SumEaves(processed_segments), perimeter_m),
          complexity_factor |->
              SegmentCountComplexity(Len(processed_segments))]

calculate_eave_length_improved(roof_type, processed_segments, perimeter_m) ==
    IF Len(processed_segments) = 0
    THEN [total_eave_m |-> 0, complexity_factor |-> 10]
    ELSE IF roof_type = "hip" /\ perimeter_m > 0
    THEN [total_eave_m |-> perimeter_m \div 2, complexity_factor |-> 12]
    ELSE IF roof_type = "gable" /\ perimeter_m > 0
    THEN [total_eave_m |-> perimeter_m \div 2, complexity_factor |-> 10]
    ELSE [total_eave_m |->
              CappedSegmentSum(SumEaves(processed_segments), perimeter_m),
          complexity_factor |->
              SegmentCountComplexity(Len(processed_segments))]

\* type_waste.get(roof_type, 0.02), in 1/1000
TypeWaste(roof_type) ==
    CASE roof_type = "flat" -> 10
      [] roof_type = "shed" -> 15
      [] roof_type = "gable" -> 20
      [] roof_type = "gambrel" -> 25
      [] roof_type = "hip" -> 25
      [] roof_type = "mansard" -> 30
      [] roof_type = "complex" -> 35
      [] roof_type = "unknown" -> 20
      [] OTHER -> 20

\* ClampWaste without the min(0.06, ...) cap
ClampWasteNoCap(total_waste) == Max2(MinWaste, total_waste)

\* line 420
ClampWaste(total_waste) == Min2(MaxWaste, Max2(MinWaste, total_waste))

\* complexity_factor in tenths, result in 1/1000
calculate_dynamic_waste_factor(roof_type, complexity_factor, segment_count) ==
    LET base_waste == TypeWaste(roof_type)
        complexity_waste == complexity_factor - 10
        segment_waste == Max2(0, (segment_count - 2) * 3)
        corner_waste == IF roof_type \in {"hip", "mansard", "complex"}
                        THEN 5 ELSE 0
    IN  ClampWaste(base_waste + complexity_waste + segment_waste + corner_waste)

\* round() of a value given in tenths: to the nearest integer, a tie to the
\* even one
RoundTenths(tenths) ==
    LET floor == tenths \div 10
        rest == tenths % 10
    IN  IF rest > 5 \/ (rest = 5 /\ floor % 2 = 1) THEN floor + 1 ELSE floor

\* _estimate_downspouts_improved with round() where lines 434, 437 and 440
\* have int()
estimate_downspouts_rounded(roof_type, total_eave_m) ==
    LET base_downspouts ==
            Max2(2, CeilDiv(MicroFeet(total_eave_m), FeetPerDownspout * 1000000))
    IN  IF roof_type = "flat" THEN 1
        ELSE IF roof_type = "shed" THEN 2
        ELSE IF roof_type \in {"gable", "gambrel"}
        THEN Max2(2, RoundTenths(base_downspouts * 9))
        ELSE IF roof_type \in {"hip", "mansard"}
        THEN Max2(4, RoundTenths(base_downspouts * 11))
        ELSE IF roof_type = "complex"
        THEN Max2(4, RoundTenths(base_downspouts * 12))
        ELSE base_downspouts

estimate_downspouts_improved(roof_type, total_eave_m) ==
    LET base_downspouts ==
            Max2(2, CeilDiv(MicroFeet(total_eave_m), FeetPerDownspout * 1000000))
    IN  IF roof_type = "flat" THEN 1
        ELSE IF roof_type = "shed" THEN 2
        ELSE IF roof_type \in {"gable", "gambrel"}
        THEN Max2(2, (base_downspouts * 9) \div 10)
        ELSE IF roof_type \in {"hip", "mansard"}
        THEN Max2(4, (base_downspouts * 11) \div 10)
        ELSE IF roof_type = "complex"
        THEN Max2(4, (base_downspouts * 12) \div 10)
        ELSE base_downspouts

\* the warnings in the order the code appends them; each string is named by
\* its condition
generate_warnings_improved(roof_type, total_eave_m, processed_segments, perimeter_m) ==
    (IF perimeter_m > 0 /\ total_eave_m > perimeter_m
     THEN <<"eave_exceeds_perimeter">>
     ELSE IF perimeter_m > 0 /\ 10 * total_eave_m < 3 * perimeter_m
     THEN <<"eave_low_for_perimeter">>
     ELSE <<>>)
    \o (IF Len(processed_segments) < 2 /\ roof_type \notin {"flat", "shed"}
        THEN <<"few_segments">> ELSE <<>>)
    \o (IF roof_type = "unknown" THEN <<"roof_type_unknown">> ELSE <<>>)
    \o (IF total_eave_m > 1000 THEN <<"large_roof">>
        ELSE IF total_eave_m < 100 THEN <<"small_roof">>
        ELSE <<>>)

----------------------------------------------------------------------------
(* GutterCalculatorService.estimate_gutter_feet *)

\* line 78: total_gutter_ft > perimeter_ft * 1.3
ExceedsMaxGutter(total_gutter_ft, perimeter_m) ==
    LET perimeter_ft == MicroFeet(perimeter_m)
    IN  total_gutter_ft * 1000000 - perimeter_ft
            > 3 * (perimeter_ft \div 10) + (3 * (perimeter_ft % 10)) \div 10

\* round(perimeter_ft * 0.9, 2), in 1/100 ft
NinetyPercentFeet(perimeter_m) ==
    LET perimeter_ft == MicroFeet(perimeter_m)
    IN  (perimeter_ft \div 100000) * 9
          + (((perimeter_ft % 100000) * 9 + 50000) \div 100000)

\* round(total_eave_m * 3.28084, 2), in 1/100 ft
EaveFeet(total_eave_m) == (MicroFeet(total_eave_m) + 5000) \div 10000

\* lines 98-103
EstimatedRange(total_gutter_ft, complexity_factor) ==
    LET range_percentage == 80 + (complexity_factor - 10) * 3
    IN  [min |-> Max2(1, (total_gutter_ft * (1000 - range_percentage)) \div 1000),
         max |-> (total_gutter_ft * (1000 + range_percentage)) \div 1000,
         target |-> total_gutter_ft]

NoEstimate ==
    [raised |-> FALSE, returned |-> FALSE]

\* the locals of estimate_gutter_feet at line 105; perimeter is the pair
\* returned by _calculate_building_perimeter, eave the pair returned by
\* _calculate_eave_length_improved, capped whether lines 79-82 ran
LocalsAtReturn(validated_roof_type, perimeter, processed_segments, eave, dynamic_waste_factor, uncapped_total_ft, capped) ==
    [validated_roof_type |-> validated_roof_type,
     perimeter_m |-> perimeter.perimeter_m,
     building_footprint_m2 |-> perimeter.ground_area,
     processed_segments |-> processed_segments,
     total_eave_m |-> eave.total_eave_m,
     complexity_factor |-> eave.complexity_factor,
     dynamic_waste_factor |-> dynamic_waste_factor,
     uncapped_total_ft |-> uncapped_total_ft,
     capped |-> capped,
     total_gutter_ft |->
         IF capped
         THEN CeilFeetWithWaste((perimeter.perimeter_m * 9) \div 10,
                                dynamic_waste_factor)
         ELSE uncapped_total_ft,
     eave_length_ft |->
         IF capped THEN NinetyPercentFeet(perimeter.perimeter_m)
         ELSE EaveFeet(eave.total_eave_m)]

\* lines 73-82: the final validation against 1.3 x perimeter
AfterConversion(validated_roof_type, perimeter, processed_segments, eave, dynamic_waste_factor, uncapped_total_ft) ==
    LocalsAtReturn(validated_roof_type, perimeter, processed_segments, eave,
                   dynamic_waste_factor, uncapped_total_ft,
                   /\ perimeter.perimeter_m > 0
                   /\ ExceedsMaxGutter(uncapped_total_ft, perimeter.perimeter_m))

\* lines 67-71: the conversion to feet with the waste factor
AfterWasteFactor(validated_roof_type, perimeter, processed_segments, eave, dynamic_waste_factor) ==
    AfterConversion(validated_roof_type, perimeter, processed_segments, eave,
                    dynamic_waste_factor,
                    CeilFeetWithWaste(eave.total_eave_m, dynamic_waste_factor))

\* lines 62-65
AfterEaveLength(validated_roof_type, perimeter, processed_segments, eave) ==
    AfterWasteFactor(validated_roof_type, perimeter, processed_segments, eave,
                     calculate_dynamic_waste_factor(
                         validated_roof_type, eave.complexity_factor,
                         Len(processed_segments)))

\* _calculate_eave_length_improved without the cap of lines 338-344
UncappedEaveLength(roof_type, processed_segments, perimeter_m) ==
    [total_eave_m |->
         IF /\ Len(processed_segments) > 0
            /\ ~(roof_type \in {"hip", "gable"} /\ perimeter_m > 0)
         THEN SumEaves(processed_segments)
         ELSE calculate_eave_length_improved(
                  roof_type, processed_segments, perimeter_m).total_eave_m,
     complexity_factor |->
         calculate_eave_length_improved(
             roof_type, processed_segments, perimeter_m).complexity_factor]

\* AfterEaveLength without the final validation of lines 73-82
AfterEaveLengthUnguarded(validated_roof_type, perimeter, processed_segments, eave, dynamic_waste_factor) ==
    LocalsAtReturn(validated_roof_type, perimeter, processed_segments, eave,
                   dynamic_waste_factor,
                   CeilFeetWithWaste(eave.total_eave_m, dynamic_waste_factor),
                   FALSE)

\* AfterSegments as it was before the overestimation fixes: the segment sum
\* is not capped at 1.2 x perimeter and the final 1.3 x perimeter validation
\* is missing
AfterSegmentsUncapped(validated_roof_type, perimeter, processed_segments) ==
    AfterEaveLengthUnguarded(
        validated_roof_type, perimeter, processed_segments,
        UncappedEaveLength(validated_roof_type, processed_segments,
                           perimeter.perimeter_m),
        calculate_dynamic_waste_factor(
            validated_roof_type,
            UncappedEaveLength(validated_roof_type, processed_segments,
                               perimeter.perimeter_m).complexity_factor,
            Len(processed_segments)))

\* lines 57-60, and the rest of the function
AfterSegments(validated_roof_type, perimeter, processed_segments) ==
    AfterEaveLength(validated_roof_type, perimeter, processed_segments,
                    calculate_eave_length_improved(
                        validated_roof_type, processed_segments,
                        perimeter.perimeter_m))

\* lines 52-55
AfterPerimeter(bd, validated_roof_type, perimeter) ==
    AfterSegments(validated_roof_type, perimeter,
                  process_roof_segments_improved(
                      bd.roofSegmentStats, bd.center, perimeter.perimeter_m))

\* the locals of estimate_gutter_feet at line 105, for an invocation that
\* does not raise (lines 43-50 and the rest of the function)
EstimateLocals(bd, rc) ==
    AfterPerimeter(bd,
                   validate_roof_type(rc.roof_type, bd.roofSegmentStats, bd.center),
                   calculate_building_perimeter(
                       bd.roofSegmentStats, bd.center, bd.wholeRoofArea))

\* lines 105-117: the GutterEstimate made of the locals
GutterEstimate(l, rc) ==
    [raised |-> FALSE, returned |-> TRUE,
     eave_length_ft |-> l.eave_length_ft,
     total_gutter_ft |-> l.total_gutter_ft,
     waste_factor |-> l.dynamic_waste_factor,
     roof_type |-> l.validated_roof_type,
     confidence |-> rc.confidence,
     warnings |-> generate_warnings_improved(
                      l.validated_roof_type, l.total_eave_m,
                      l.processed_segments, l.perimeter_m),
     estimated_range |->
         EstimatedRange(l.total_gutter_ft, l.complexity_factor),
     downspouts_estimate |->
         estimate_downspouts_improved(l.validated_roof_type, l.total_eave_m),
     complexity_factor |-> l.complexity_factor,
     perimeter_m |-> l.perimeter_m,
     building_footprint_m2 |-> l.building_footprint_m2]

\* the locals before any is assigned
NoLocals ==
    LocalsAtReturn("unknown",
                   [raised |-> FALSE, perimeter_m |-> 0, ground_area |-> 0],
                   <<>>, [total_eave_m |-> 0, complexity_factor |-> 10],
                   0, 0, FALSE)

\* the return of lines 105-117: the GutterEstimate, and the locals it was
\* made of
ReturnWith(l, rc) == [estimate |-> GutterEstimate(l, rc), locals |-> l]

\* one run of estimate_gutter_feet: what it returns and the locals it leaves;
\* it raises when an exception reaches the except clause of line 119, which
\* raises again
Invocation(bd, rc) ==
    IF calculate_building_perimeter(
           bd.roofSegmentStats, bd.center, bd.wholeRoofArea).raised
    THEN [estimate |-> [raised |-> TRUE, returned |-> FALSE],
          locals |-> NoLocals]
    ELSE ReturnWith(EstimateLocals(bd, rc), rc)

\* the GutterEstimate returned, or raised
estimate_gutter_feet(bd, rc) == Invocation(bd, rc).estimate

----------------------------------------------------------------------------
(* RoofClassifierService: classification of one building; confidences in
   1/1000 *)

\* the roof_type and confidence of a classification, confidence in 1/1000
Classification(roof_type, confidence) ==
    [roof_type |-> roof_type, confidence |-> confidence]

NoClassification == Classification("unknown", 0)

simple_segment_based_classification(segment_count) ==
    IF segment_count = 1 THEN "shed"
    ELSE IF segment_count = 2 THEN "gable"
    ELSE IF segment_count = 3 THEN "gable"
    ELSE IF segment_count = 4 THEN "hip"
    ELSE IF segment_count = 5 THEN "hip"
    ELSE IF segment_count >= 6 THEN "complex"
    ELSE "unknown"

\* base_confidence before the clamp of line 306
SimpleConfidenceSum(segment_count, ai_type, geometry_type) ==
    LET clarity == IF segment_count = 2 THEN 150
                   ELSE IF segment_count = 4 THEN 100
                   ELSE IF segment_count >= 2 /\ segment_count <= 5 THEN 100
                   ELSE IF segment_count > 5 THEN -100
                   ELSE 0
        agreement == IF ai_type = geometry_type THEN 100
                     ELSE IF ai_type \in {"gable", "hip"}
                             /\ geometry_type \in {"gable", "hip"} THEN 50
                     ELSE IF ai_type = "unknown" /\ geometry_type # "unknown"
                          THEN 100
                     ELSE 0
        confusion == IF segment_count = 2 /\ ai_type = "hip" THEN -200
                     ELSE IF segment_count = 4 /\ ai_type = "gable" THEN -200
                     ELSE 0
    IN  800 + clarity + agreement + confusion

\* _calculate_simple_confidence with the bonus of exactly 2 segments given to
\* exactly 4 as well (line 284 with 0.15)
calculate_simple_confidence_same_bonus(segment_count, ai_type, geometry_type) ==
    Max2(400, Min2(950,
        SimpleConfidenceSum(segment_count, ai_type, geometry_type)
          + (IF segment_count = 4 THEN 50 ELSE 0)))

\* _calculate_simple_confidence with the penalty of lines 300-303 taken for
\* every disagreement of the two types, whatever the segment count
calculate_simple_confidence_penalised(segment_count, ai_type, geometry_type) ==
    Max2(400, Min2(950,
        SimpleConfidenceSum(segment_count, ai_type, geometry_type)
          - (IF ai_type # geometry_type /\ segment_count \notin {2, 4}
             THEN 200 ELSE 0)))

calculate_simple_confidence(segment_count, ai_type, geometry_type) ==
    Max2(400, Min2(950,
        SimpleConfidenceSum(segment_count, ai_type, geometry_type)))

\* 0.8 - 0.1 is 0.7000000000000001 in binary floating point: the one sum of
\* _calculate_simple_confidence that lies above its decimal value
AboveDecimal(segment_count, ai_type, geometry_type) ==
    /\ segment_count > 5
    /\ SimpleConfidenceSum(segment_count, ai_type, geometry_type) = 700

\* _validate_roof_type_geometry without the elif of lines 243-245: a geometry
\* confidence above the AI confidence by 0.15 or less keeps the AI type
validate_roof_type_geometry_two_branches(ai_roof_type, roof_segments, ai_confidence) ==
    LET segment_count == Len(roof_segments)
        geometry_roof_type == simple_segment_based_classification(segment_count)
        geometry_confidence ==
            calculate_simple_confidence(
                segment_count, ai_roof_type, geometry_roof_type)
    IN  IF segment_count = 0
        THEN Classification(ai_roof_type, (ai_confidence * 8) \div 10)
        ELSE IF geometry_confidence > ai_confidence + 150
        THEN Classification(geometry_roof_type, geometry_confidence)
        ELSE Classification(ai_roof_type,
                            Max2(ai_confidence, (geometry_confidence * 9) \div 10))

\* lines 221-252; the validated type and its confidence
validate_roof_type_geometry(ai_roof_type, roof_segments, ai_confidence) ==
    LET segment_count == Len(roof_segments)
        geometry_roof_type == simple_segment_based_classification(segment_count)
        geometry_confidence ==
            calculate_simple_confidence(
                segment_count, ai_roof_type, geometry_roof_type)
        exceeds ==
            \/ geometry_confidence > ai_confidence
            \/ /\ geometry_confidence = ai_confidence
               /\ AboveDecimal(segment_count, ai_roof_type, geometry_roof_type)
    IN  IF segment_count = 0
        THEN Classification(ai_roof_type, (ai_confidence * 8) \div 10)
        ELSE IF geometry_confidence > ai_confidence + 150
        THEN Classification(geometry_roof_type, geometry_confidence)
        ELSE IF exceeds
        THEN Classification(geometry_roof_type,
                            (ai_confidence + geometry_confidence) \div 2)
        ELSE Classification(ai_roof_type,
                            Max2(ai_confidence, (geometry_confidence * 9) \div 10))

RECURSIVE SumPitches(_)
SumPitches(pitches) ==
    IF Len(pitches) = 0 THEN 0
    ELSE Head(pitches) + SumPitches(Tail(pitches))

\* line 312: avg_pitch < limit, the average being 0 without pitches
AvgPitchBelow(pitches, limit) ==
    IF Len(pitches) = 0 THEN 0 < limit
    ELSE SumPitches(pitches) < limit * Len(pitches)

\* lines 308-372; pitches in whole degrees
predict_roof_type_from_geometry(segment_count, unique_azimuths, pitches, total_area) ==
    IF segment_count = 1
    THEN IF AvgPitchBelow(pitches, 15) THEN "flat" ELSE "shed"
    ELSE IF segment_count = 2
    THEN IF unique_azimuths = 2 THEN "gable" ELSE "gambrel"
    ELSE IF segment_count = 3
    THEN IF unique_azimuths >= 3 THEN "hip" ELSE "gable"
    ELSE IF segment_count = 4
    THEN IF unique_azimuths >= 3
         THEN IF \E i \in 1..Len(pitches) : pitches[i] > 45
              THEN "mansard" ELSE "hip"
         ELSE "gable"
    ELSE IF segment_count = 5
    THEN IF unique_azimuths >= 4 THEN "hip" ELSE "gable"
    ELSE IF segment_count >= 6
    THEN IF unique_azimuths >= 5 THEN "complex" ELSE "hip"
    ELSE IF total_area > 200 THEN "complex"
    ELSE IF AvgPitchBelow(pitches, 20) THEN "flat"
    ELSE "gable"

\* _fallback_roof_classification answering as its own except clause does
\* (lines 445-451) for every building
fallback_roof_classification_system_error(roof_segments) ==
    Classification("unknown", 200)

\* lines 418-451
fallback_roof_classification(roof_segments) ==
    IF Len(roof_segments) > 0
    THEN Classification(
             simple_segment_based_classification(Len(roof_segments)), 700)
    ELSE Classification("unknown", 300)

\* what the vision model's answer is parsed to; failed: the request to the
\* model, or the parsing of its answer, raised
AIFailure == [failed |-> TRUE, roof_type |-> "unknown", confidence |-> 0]

AIConfidences == {500, 700, 900, 950}

AIResponses ==
    {AIFailure} \cup
    {[failed |-> FALSE, roof_type |-> t, confidence |-> c] :
        t \in ExternalRoofTypes, c \in AIConfidences}

\* _ai_classify_roof_with_vision returning the pair of line 199 as it is,
\* without the selection of lines 204-205
ai_classify_roof_with_vision_validated_only(bd, ai) ==
    IF ai.failed
    THEN fallback_roof_classification(bd.roofSegmentStats)
    ELSE validate_roof_type_geometry(
             ai.roof_type, bd.roofSegmentStats, ai.confidence)

\* lines 125-219: roof type and confidence of the classification returned
ai_classify_roof_with_vision(bd, ai) ==
    IF ai.failed
    THEN fallback_roof_classification(bd.roofSegmentStats)
    ELSE LET validated == validate_roof_type_geometry(
                              ai.roof_type, bd.roofSegmentStats, ai.confidence)
         IN  Classification(
                 IF validated.confidence > ai.confidence
                 THEN validated.roof_type ELSE ai.roof_type,
                 Max2(ai.confidence, validated.confidence))

\* lines 231-238: the type the segment count predicts and its confidence;
\* above_decimal: the floating-point confidence lies above its 1/1000 value
GeometryPrediction(ai_roof_type, roof_segments) ==
    LET geometry_roof_type ==
            simple_segment_based_classification(Len(roof_segments))
    IN  [roof_type |-> geometry_roof_type,
         confidence |-> calculate_simple_confidence(
                            Len(roof_segments), ai_roof_type, geometry_roof_type),
         above_decimal |-> AboveDecimal(
                            Len(roof_segments), ai_roof_type, geometry_roof_type)]

NoGeometry == [roof_type |-> "unknown", confidence |-> 0, above_decimal |-> FALSE]

\* the locals of _ai_classify_roof_with_vision at line 207: the parsed answer
\* of the vision model (line 196), the geometry prediction made inside
\* _validate_roof_type_geometry and the pair it returned (line 199); ran is
\* FALSE when the except clause of line 216 answered instead
FusionLocals(bd, ai) ==
    [ran |-> ~ai.failed,
     ai |-> ai,
     geometry |-> IF ~ai.failed /\ Len(bd.roofSegmentStats) > 0
                  THEN GeometryPrediction(ai.roof_type, bd.roofSegmentStats)
                  ELSE NoGeometry,
     validated |-> IF ai.failed THEN NoClassification
                   ELSE validate_roof_type_geometry(
                            ai.roof_type, bd.roofSegmentStats, ai.confidence)]

NoFusion ==
    [ran |-> FALSE, ai |-> AIFailure, geometry |-> NoGeometry,
     validated |-> NoClassification]

\* DataLayersService.get_data_layers with the failure passed on to the caller
get_data_layers_propagating(fetch) ==
    [raised |-> fetch = "failed", fallback |-> FALSE]

\* DataLayersService.get_data_layers: a failed geocoding or fetch is caught
\* and answered with an empty raw_api_response marked "fallback"
get_data_layers(fetch) ==
    [raised |-> FALSE, fallback |-> fetch = "failed"]

----------------------------------------------------------------------------
(* The shared GutterCalculatorService instance and the invocations that run
   on it at the same time *)

MaxCalls == 2

CallIds == 1..MaxCalls

\* __init__ (line 28): the one attribute of the instance, in tenths
NewInstance == [min_plane_area |-> 10]

\* an invocation: its position in estimate_gutter_feet, its two arguments and
\* what it returned
NoCall ==
    [stage |-> "idle", building_data |-> NoBuildingData,
     roof_classification |-> NoClassification, estimate |-> NoEstimate]

NoCalls == [id \in CallIds |-> NoCall]

\* the locals estimate_gutter_feet assigns at lines 44-65, before any is
\* assigned
NoFrame ==
    [validated_roof_type |-> "unknown",
     perimeter |-> [raised |-> FALSE, perimeter_m |-> 0, ground_area |-> 0],
     processed_segments |-> <<>>,
     eave |-> [total_eave_m |-> 0, complexity_factor |-> 10],
     dynamic_waste_factor |-> 0]

NoFrames == [id \in CallIds |-> NoFrame]

\* the locals kept as attributes of the instance: one frame for every
\* invocation
InstanceFrame(id) == 1

\* the locals of an invocation are names of its own function frame (every
\* assignment of lines 33-103 is to a local, none to self)
FrameOf(id) == id

----------------------------------------------------------------------------
(* Direct invocations of the calculator on one service instance *)

NoWasteCall ==
    [roof_type |-> "unknown", complexity_factor |-> 10, segment_count |-> 0,
     result |-> 0]

ComplexityFactors == {10, 12, 14}

\* what one classify_roof_type request has done so far: the outcome of each
\* upstream fetch ("none" before it ran), the images processed, whether
\* estimate_gutter_feet was invoked, the steps completed, in order, and the
\* locals of the classification step
NoFlow ==
    [geocode |-> "none", insights |-> "none", layers |-> "none",
     images_processed |-> 0, invoked |-> FALSE, trace |-> <<>>,
     fusion |-> NoFusion]

\* what the two geometry predictions of the classifier gave for the
\* building, once each has been asked
NoPrediction ==
    [predicted |-> FALSE, geometry_type |-> "unknown",
     classified |-> FALSE, simple_type |-> "unknown"]

Init ==
    /\ pc = "idle"
    /\ building_data = NoBuildingData
    /\ roof_classification = NoClassification
    /\ estimate = NoEstimate
    /\ estimate_locals = NoLocals
    /\ waste_call = NoWasteCall
    /\ flow = NoFlow
    /\ instance = NewInstance
    /\ calls = NoCalls
    /\ frames = NoFrames
    /\ prediction = NoPrediction

\* a caller invokes estimate_gutter_feet(building_data, roof_classification)
CallEstimate ==
    /\ pc = "idle"
    /\ \E bd \in BuildingData, roof_type \in ExternalRoofTypes :
          /\ building_data' = bd
          /\ roof_classification' = Classification(roof_type, 850)
    /\ pc' = "called"
    /\ UNCHANGED <<estimate, waste_call, flow>>
    /\ UNCHANGED concurrent
    /\ UNCHANGED prediction
    /\ UNCHANGED estimate_locals

\* estimate_gutter_feet runs to its return, or to the raise of line 121
RunEstimate ==
    /\ pc = "called"
    /\ \E run \in {Invocation(building_data, roof_classification)} :
          /\ estimate' = run.estimate
          /\ estimate_locals' = run.locals
    /\ pc' = IF estimate'.raised THEN "raised" ELSE "returned"
    /\ UNCHANGED <<building_data, roof_classification, waste_call, flow>>
    /\ UNCHANGED concurrent
    /\ UNCHANGED prediction

\* a caller invokes _calculate_dynamic_waste_factor directly
CallWasteFactor ==
    /\ pc = "idle"
    /\ \E roof_type \in ExternalRoofTypes, cf \in ComplexityFactors,
          n \in 0..MaxSegmentCount :
          waste_call' =
              [roof_type |-> roof_type, complexity_factor |-> cf,
               segment_count |-> n,
               result |-> calculate_dynamic_waste_factor(roof_type, cf, n)]
    /\ pc' = "waste_returned"
    /\ UNCHANGED <<building_data, roof_classification, estimate, flow>>
    /\ UNCHANGED concurrent
    /\ UNCHANGED prediction
    /\ UNCHANGED estimate_locals

\* the caller has taken the result; the instance serves the next call
Done ==
    /\ pc \in {"returned", "raised", "waste_returned"}
    /\ pc' = "idle"
    /\ building_data' = NoBuildingData
    /\ roof_classification' = NoClassification
    /\ estimate' = NoEstimate
    /\ waste_call' = NoWasteCall
    /\ UNCHANGED flow
    /\ UNCHANGED concurrent
    /\ UNCHANGED prediction
    /\ estimate_locals' = NoLocals

Next == CallEstimate \/ RunEstimate \/ CallWasteFactor \/ Done

Spec == Init /\ [][Next]_vars

----------------------------------------------------------------------------
(* One request through RoofClassifierService.classify_roof_type *)

MaxFlowSegs == 6

SegmentCycle == <<SegAreaOnly, SegEmpty, SegBoxed, SegHuge>>

\* n segments, taken in turn from the four segments, starting after the k-th
CycledSegments(n, k) ==
    [i \in 1..n |-> SegmentCycle[((i + k - 1) % Len(SegmentCycle)) + 1]]

FlowBuildingData ==
    {[roofSegmentStats |-> CycledSegments(n, k),
      wholeRoofArea |-> a, center |-> c] :
        n \in 0..MaxFlowSegs, k \in 0..(Len(SegmentCycle) - 1),
        a \in {0, 100}, c \in Centers}

FetchOutcomes == {"ok", "failed"}

Step(f, name) == [f EXCEPT !.trace = Append(@, name)]

InitFlow ==
    /\ pc = "flow_start"
    /\ building_data = NoBuildingData
    /\ roof_classification = NoClassification
    /\ estimate = NoEstimate
    /\ estimate_locals = NoLocals
    /\ waste_call = NoWasteCall
    /\ flow = NoFlow
    /\ instance = NewInstance
    /\ calls = NoCalls
    /\ frames = NoFrames
    /\ prediction = NoPrediction

\* Step 1 (lines 49-51): geocode_address returns (None, None) on any failure
Geocode ==
    /\ pc = "flow_start"
    /\ \E outcome \in FetchOutcomes :
          /\ flow' = Step([flow EXCEPT !.geocode = outcome], "geocode")
          /\ pc' = IF outcome = "ok" THEN "flow_geocoded" ELSE "flow_raised"
    /\ UNCHANGED <<building_data, roof_classification, estimate, waste_call>>
    /\ UNCHANGED concurrent
    /\ UNCHANGED prediction
    /\ UNCHANGED estimate_locals

\* Step 2 (line 56): get_building_insights raises when its own geocoding or
\* its request fails
GetBuildingInsights ==
    /\ pc = "flow_geocoded"
    /\ \E outcome \in FetchOutcomes, bd \in FlowBuildingData :
          /\ flow' = Step([flow EXCEPT !.insights = outcome], "building_insights")
          /\ building_data' = IF outcome = "ok" THEN bd ELSE NoBuildingData
          /\ pc' = IF outcome = "ok" THEN "flow_insights" ELSE "flow_raised"
    /\ UNCHANGED <<roof_classification, estimate, waste_call>>
    /\ UNCHANGED concurrent
    /\ UNCHANGED prediction
    /\ UNCHANGED estimate_locals

\* Step 3 (line 61)
GetDataLayers ==
    /\ pc = "flow_insights"
    /\ \E outcome \in FetchOutcomes :
          /\ flow' = Step([flow EXCEPT !.layers = outcome], "data_layers")
          /\ pc' = IF get_data_layers(outcome).raised
                   THEN "flow_raised" ELSE "flow_layers"
    /\ UNCHANGED <<building_data, roof_classification, estimate, waste_call>>
    /\ UNCHANGED concurrent
    /\ UNCHANGED prediction
    /\ UNCHANGED estimate_locals

\* Step 4 (lines 69-71): download_and_process_images never raises; an empty
\* raw_api_response has no image to process
DownloadImages ==
    /\ pc = "flow_layers"
    /\ \E n \in {0, 2} :
          /\ get_data_layers(flow.layers).fallback => n = 0
          /\ flow' = Step([flow EXCEPT !.images_processed = n], "images")
    /\ pc' = "flow_images"
    /\ UNCHANGED <<building_data, roof_classification, estimate, waste_call>>
    /\ UNCHANGED concurrent
    /\ UNCHANGED prediction
    /\ UNCHANGED estimate_locals

\* Step 5 (lines 77-82)
AIClassify ==
    /\ pc = "flow_images"
    /\ \E ai \in AIResponses :
          /\ roof_classification'
                = ai_classify_roof_with_vision(building_data, ai)
          /\ flow' = Step([flow EXCEPT
                              !.fusion = FusionLocals(building_data, ai)],
                          "classify")
    /\ pc' = "flow_classified"
    /\ UNCHANGED <<building_data, estimate, waste_call>>
    /\ UNCHANGED concurrent
    /\ UNCHANGED prediction
    /\ UNCHANGED estimate_locals

\* Step 6 (lines 86-89) and the return of lines 93-119; an exception of the
\* calculator is raised again at lines 121-123
EstimateGutter ==
    /\ pc = "flow_classified"
    /\ \E run \in {Invocation(building_data, roof_classification)} :
          /\ estimate' = run.estimate
          /\ estimate_locals' = run.locals
    /\ flow' = Step([flow EXCEPT !.invoked = TRUE], "estimate")
    /\ pc' = IF estimate'.raised THEN "flow_raised" ELSE "flow_returned"
    /\ UNCHANGED <<building_data, roof_classification, waste_call>>
    /\ UNCHANGED concurrent
    /\ UNCHANGED prediction

\* the router has answered; the shared service takes the next request
NextRequest ==
    /\ pc \in {"flow_returned", "flow_raised"}
    /\ pc' = "flow_start"
    /\ building_data' = NoBuildingData
    /\ roof_classification' = NoClassification
    /\ estimate' = NoEstimate
    /\ flow' = NoFlow
    /\ UNCHANGED waste_call
    /\ UNCHANGED concurrent
    /\ UNCHANGED prediction
    /\ estimate_locals' = NoLocals

NextFlow ==
    \/ Geocode
    \/ GetBuildingInsights
    \/ GetDataLayers
    \/ DownloadImages
    \/ AIClassify
    \/ EstimateGutter
    \/ NextRequest

SpecFlow == InitFlow /\ [][NextFlow]_vars

----------------------------------------------------------------------------
(* Invocations of estimate_gutter_feet that run at the same time on the one
   GutterCalculatorService of roof_service (routers/roof_classification.py,
   line 7), interleaved between any two statements *)

ConcurrentBuildingData ==
    {[roofSegmentStats |-> CycledSegments(n, 0),
      wholeRoofArea |-> a, center |-> NoCenter] :
        n \in {2, 5}, a \in {100, -4}}

ConcurrentClassifications ==
    {Classification("hip", 850), Classification("flat", 500)}

InitConcurrent ==
    /\ pc = "concurrent"
    /\ building_data = NoBuildingData
    /\ roof_classification = NoClassification
    /\ estimate = NoEstimate
    /\ estimate_locals = NoLocals
    /\ waste_call = NoWasteCall
    /\ flow = NoFlow
    /\ instance = NewInstance
    /\ calls = NoCalls
    /\ frames = NoFrames
    /\ prediction = NoPrediction

\* the invocation moves on to the next stage
Advance(id, stage) == [calls EXCEPT ![id].stage = stage]

\* the frame the invocation reads its locals from
Frame(id) == frames[FrameOf(id)]

\* lines 30-41: a request invokes estimate_gutter_feet with its own arguments
EnterEstimate(id) ==
    /\ calls[id].stage = "idle"
    /\ \E bd \in ConcurrentBuildingData, rc \in ConcurrentClassifications :
          calls' = [calls EXCEPT ![id] =
                       [stage |-> "validate", building_data |-> bd,
                        roof_classification |-> rc, estimate |-> NoEstimate]]
    /\ frames' = [frames EXCEPT ![FrameOf(id)] = NoFrame]
    /\ UNCHANGED <<instance, pc, building_data, roof_classification, estimate,
                   estimate_locals, waste_call, flow,
                   prediction>>

\* lines 43-45
ValidateRoofType(id) ==
    /\ calls[id].stage = "validate"
    /\ frames' = [frames EXCEPT ![FrameOf(id)].validated_roof_type =
                      validate_roof_type(
                          calls[id].roof_classification.roof_type,
                          calls[id].building_data.roofSegmentStats,
                          calls[id].building_data.center)]
    /\ calls' = Advance(id, "perimeter")
    /\ UNCHANGED <<instance, pc, building_data, roof_classification, estimate,
                   estimate_locals, waste_call, flow,
                   prediction>>

\* lines 47-50; an exception goes to the except clause of line 119
CalculatePerimeter(id) ==
    /\ calls[id].stage = "perimeter"
    /\ frames' = [frames EXCEPT ![FrameOf(id)].perimeter =
                      calculate_building_perimeter(
                          calls[id].building_data.roofSegmentStats,
                          calls[id].building_data.center,
                          calls[id].building_data.wholeRoofArea)]
    /\ calls' = Advance(id, IF frames'[FrameOf(id)].perimeter.raised
                            THEN "raising" ELSE "segments")
    /\ UNCHANGED <<instance, pc, building_data, roof_classification, estimate,
                   estimate_locals, waste_call, flow,
                   prediction>>

\* lines 52-55
ProcessSegments(id) ==
    /\ calls[id].stage = "segments"
    /\ frames' = [frames EXCEPT ![FrameOf(id)].processed_segments =
                      process_roof_segments_improved(
                          calls[id].building_data.roofSegmentStats,
                          calls[id].building_data.center,
                          Frame(id).perimeter.perimeter_m)]
    /\ calls' = Advance(id, "eave")
    /\ UNCHANGED <<instance, pc, building_data, roof_classification, estimate,
                   estimate_locals, waste_call, flow,
                   prediction>>

\* lines 57-60
CalculateEaveLength(id) ==
    /\ calls[id].stage = "eave"
    /\ frames' = [frames EXCEPT ![FrameOf(id)].eave =
                      calculate_eave_length_improved(
                          Frame(id).validated_roof_type,
                          Frame(id).processed_segments,
                          Frame(id).perimeter.perimeter_m)]
    /\ calls' = Advance(id, "waste")
    /\ UNCHANGED <<instance, pc, building_data, roof_classification, estimate,
                   estimate_locals, waste_call, flow,
                   prediction>>

\* lines 62-65
CalculateWasteFactor(id) ==
    /\ calls[id].stage = "waste"
    /\ frames' = [frames EXCEPT ![FrameOf(id)].dynamic_waste_factor =
                      calculate_dynamic_waste_factor(
                          Frame(id).validated_roof_type,
                          Frame(id).eave.complexity_factor,
                          Len(Frame(id).processed_segments))]
    /\ calls' = Advance(id, "convert")
    /\ UNCHANGED <<instance, pc, building_data, roof_classification, estimate,
                   estimate_locals, waste_call, flow,
                   prediction>>

\* lines 67-117: the conversion, the final validation and the GutterEstimate
\* made of the locals
ReturnEstimate(id) ==
    /\ calls[id].stage = "convert"
    /\ calls' = [calls EXCEPT
                    ![id].stage = "returned",
                    ![id].estimate =
                        GutterEstimate(
                            AfterWasteFactor(Frame(id).validated_roof_type,
                                             Frame(id).perimeter,
                                             Frame(id).processed_segments,
                                             Frame(id).eave,
                                             Frame(id).dynamic_waste_factor),
                            calls[id].roof_classification)]
    /\ UNCHANGED <<instance, frames, pc, building_data, roof_classification,
                   estimate, estimate_locals, waste_call, flow,
                   prediction>>

\* lines 119-121: the exception is logged and raised again
RaiseEstimate(id) ==
    /\ calls[id].stage = "raising"
    /\ calls' = [calls EXCEPT
                    ![id].stage = "raised",
                    ![id].estimate = [raised |-> TRUE, returned |-> FALSE]]
    /\ UNCHANGED <<instance, frames, pc, building_data, roof_classification,
                   estimate, estimate_locals, waste_call, flow,
                   prediction>>

\* the request has its answer; its slot takes the next request
TakeResult(id) ==
    /\ calls[id].stage \in {"returned", "raised"}
    /\ calls' = [calls EXCEPT ![id] = NoCall]
    /\ UNCHANGED <<instance, frames, pc, building_data, roof_classification,
                   estimate, estimate_locals, waste_call, flow,
                   prediction>>

NextConcurrent ==
    \E id \in CallIds :
        \/ EnterEstimate(id)
        \/ ValidateRoofType(id)
        \/ CalculatePerimeter(id)
        \/ ProcessSegments(id)
        \/ CalculateEaveLength(id)
        \/ CalculateWasteFactor(id)
        \/ ReturnEstimate(id)
        \/ RaiseEstimate(id)
        \/ TakeResult(id)

SpecConcurrent == InitConcurrent /\ [][NextConcurrent]_vars

----------------------------------------------------------------------------
(* The geometry predictions of the classifier on the segments of a building *)

\* longest roofSegmentStats list handed to the geometry predictions
MaxGeometrySegs == 6

\* n segments over d distinct azimuths spread evenly around the compass
\* (two azimuths are opposite), the first with the given pitch, the others
\* with 25 degrees
GeometrySegments(n, d, pitch, area) ==
    [i \in 1..n |->
        Segment(area, IF i = 1 THEN pitch ELSE 25,
                ((i - 1) % d) * (360000000 \div d), NoBBox)]

GeometryPitches == {10, 25, 50}

GeometryAreas == {30, 50}

GeometryBuildingData ==
    {[roofSegmentStats |-> GeometrySegments(n, d, pitch, area),
      wholeRoofArea |-> 200,
      center |-> [present |-> TRUE, latitude |-> 30]] :
        n \in 0..MaxGeometrySegs, d \in 1..MaxGeometrySegs,
        pitch \in GeometryPitches, area \in GeometryAreas}

\* the pitches of the segments, as the caller collects them
Pitches(roof_segments) ==
    [i \in 1..Len(roof_segments) |-> roof_segments[i].pitchDegrees]

InitGeometry ==
    /\ pc = "geometry"
    /\ building_data \in GeometryBuildingData
    /\ roof_classification = NoClassification
    /\ estimate = NoEstimate
    /\ estimate_locals = NoLocals
    /\ waste_call = NoWasteCall
    /\ flow = NoFlow
    /\ instance = NewInstance
    /\ calls = NoCalls
    /\ frames = NoFrames
    /\ prediction = NoPrediction

\* _predict_roof_type_from_geometry on the count, the distinct azimuths, the
\* pitches and the total area of the segments
PredictFromGeometry ==
    /\ pc = "geometry"
    /\ ~prediction.predicted
    /\ prediction' =
          [prediction EXCEPT
              !.predicted = TRUE,
              !.geometry_type =
                  predict_roof_type_from_geometry(
                      Len(building_data.roofSegmentStats),
                      UniqueAzimuths(building_data.roofSegmentStats),
                      Pitches(building_data.roofSegmentStats),
                      SumAreas(building_data.roofSegmentStats))]
    /\ UNCHANGED <<pc, building_data, roof_classification, estimate,
                   estimate_locals, waste_call, flow>>
    /\ UNCHANGED concurrent

\* _simple_segment_based_classification on the count of the segments
ClassifyBySegmentCount ==
    /\ pc = "geometry"
    /\ ~prediction.classified
    /\ prediction' =
          [prediction EXCEPT
              !.classified = TRUE,
              !.simple_type =
                  simple_segment_based_classification(
                      Len(building_data.roofSegmentStats))]
    /\ UNCHANGED <<pc, building_data, roof_classification, estimate,
                   estimate_locals, waste_call, flow>>
    /\ UNCHANGED concurrent

NextGeometry ==
    \/ PredictFromGeometry
    \/ ClassifyBySegmentCount

SpecGeometry == InitGeometry /\ [][NextGeometry]_vars

----------------------------------------------------------------------------
(* Claims about the calculator, checked under Spec *)

Returned == pc = "returned"

\* the locals of the invocation whose result the state holds
Locals == estimate_locals

Segs == building_data.roofSegmentStats

\* C1 as stated: the perimeter returned by the perimeter estimator lies in
\* [20, 200] metres for every input.
C1_PerimeterAlwaysInRange ==
    Returned =>
        /\ estimate.perimeter_m >= MinPerimeter * 10
        /\ estimate.perimeter_m <= MaxPerimeter * 10

\* C1 amended: the perimeter returned is 0 exactly when the whole-roof area
\* is absent or zero and the union bounding box has no positive perimeter,
\* and lies in [20, 200] metres otherwise.
C1_PerimeterZeroOrInRange ==
    Returned =>
        IF building_data.wholeRoofArea = 0
           /\ BBoxPerimeter(Segs, building_data.center) = 0
        THEN estimate.perimeter_m = 0
        ELSE /\ estimate.perimeter_m >= MinPerimeter * 10
             /\ estimate.perimeter_m <= MaxPerimeter * 10

\* C1 witness: an estimate above 200 m came back as 200 m.
C1_ClampedFromAbove ==
    /\ Returned
    /\ RawPerimeter(Segs, building_data.center, building_data.wholeRoofArea)
          > MaxPerimeter * 10
    /\ estimate.perimeter_m = MaxPerimeter * 10

\* C2: in every estimate returned, estimated_range.min <= target <= max and
\* target is total_gutter_ft.
C2_RangeOrdered ==
    Returned =>
        /\ estimate.estimated_range.target = estimate.total_gutter_ft
        /\ estimate.estimated_range.min <= estimate.estimated_range.target
        /\ estimate.estimated_range.target <= estimate.estimated_range.max

\* C3: when the total eave length is zero the estimate has total_gutter_ft
\* 0, range {0, 0, 0} and at least one warning.
C3_ZeroEaveGivesZeroRange ==
    (Returned /\ Locals.total_eave_m = 0) =>
        /\ estimate.total_gutter_ft = 0
        /\ estimate.estimated_range = [min |-> 0, max |-> 0, target |-> 0]
        /\ estimate.warnings # <<>>

\* math.ceil(perimeter_ft * 1.3 * (1 + waste)), perimeter_ft = perimeter x 3.28084
PerimeterBoundFt(perimeter_m, waste) ==
    BigCeilDiv(BigMul(perimeter_m * FeetPerMeterE5, 13 * (1000 + waste)), 1000000)

\* C4: with a positive perimeter, total_gutter_ft never exceeds
\* ceil(perimeterFt x 1.3 x (1 + wasteFactor)).
C4_TotalWithinPerimeterBound ==
    (Returned /\ estimate.perimeter_m > 0) =>
        estimate.total_gutter_ft
            <= PerimeterBoundFt(estimate.perimeter_m, estimate.waste_factor)

\* C4 witness: an estimate whose segment eave sum was above 1.2 x perimeter.
C4_SegmentSumAbovePerimeter ==
    /\ Returned
    /\ estimate.perimeter_m > 0
    /\ estimate.roof_type \notin {"hip", "gable"}
    /\ 10 * SumEaves(Locals.processed_segments) > 12 * estimate.perimeter_m
    /\ estimate.total_gutter_ft > 0

\* C5: the waste factor lies in [0.01, 0.06], for every roof type, every
\* complexity factor and every segment count, in a direct call and in every
\* estimate.
C5_WasteFactorInRange ==
    /\ pc = "waste_returned" =>
          (waste_call.result >= MinWaste /\ waste_call.result <= MaxWaste)
    /\ Returned =>
          (estimate.waste_factor >= MinWaste /\ estimate.waste_factor <= MaxWaste)

\* C5 witness: a call whose parts add up to more than 0.06 returned 0.06.
C5_CappedWaste ==
    /\ pc = "waste_returned"
    /\ TypeWaste(waste_call.roof_type) + (waste_call.complexity_factor - 10)
          + 3 * (waste_call.segment_count - 2) > MaxWaste
    /\ waste_call.result = MaxWaste

\* the decision table of C6 for the invocation the state holds
DecisionTable ==
    LET n == Len(Segs)
        external == roof_classification.roof_type
    IN  /\ n = 1 => (estimate.roof_type = "shed" \/ external \in {"shed", "flat"})
        /\ n = 2 => estimate.roof_type = "gable"
        /\ (n >= 4 /\ UniqueAzimuths(Segs) >= 3) =>
              (estimate.roof_type = "hip"
                 \/ external \in {"hip", "mansard", "complex"})

\* C6 as stated: for every non-empty segment list, whatever the other fields,
\* 1 segment gives shed (unless external is shed or flat), 2 give gable, 4 or
\* more with 3 or more distinct azimuths give hip (unless external is hip,
\* mansard or complex).
C6_DecisionTableAlways ==
    (Returned /\ Len(Segs) > 0) => DecisionTable

\* C6 amended: the decision table applies when the building center is present
\* and the segments' total ground area is positive; otherwise, and in the
\* excepted cases, the external type is returned unchanged.
C6_DecisionTableWithCenterAndArea ==
    (Returned /\ Len(Segs) > 0) =>
        LET n == Len(Segs)
            external == roof_classification.roof_type
        IN  IF building_data.center.present /\ SumAreas(Segs) > 0
            THEN /\ DecisionTable
                 /\ (n = 1 /\ external \in {"shed", "flat"}) =>
                       estimate.roof_type = external
                 /\ (n >= 4 /\ UniqueAzimuths(Segs) >= 3
                       /\ external \in {"hip", "mansard", "complex"}) =>
                       estimate.roof_type = external
            ELSE estimate.roof_type = external

\* C6 witness: four or more segments with three distinct azimuths turned an
\* external gable into hip.
C6_GableBecomesHip ==
    /\ Returned
    /\ Len(Segs) >= 4
    /\ UniqueAzimuths(Segs) >= 3
    /\ roof_classification.roof_type = "gable"
    /\ estimate.roof_type = "hip"

\* C7 as stated: more than 4 segments and an external type other than complex
\* resolve to complex.
C7_ManySegmentsAlwaysComplex ==
    (Returned /\ Len(Segs) > 4 /\ roof_classification.roof_type # "complex") =>
        estimate.roof_type = "complex"

\* C7 amended: more than 4 segments with fewer than 3 distinct azimuths, a
\* building center, a positive total ground area and an external type other
\* than complex resolve to complex.
C7_ManySegmentsFewAzimuthsComplex ==
    (/\ Returned
     /\ Len(Segs) > 4
     /\ UniqueAzimuths(Segs) < 3
     /\ building_data.center.present
     /\ SumAreas(Segs) > 0
     /\ roof_classification.roof_type # "complex") =>
        estimate.roof_type = "complex"

\* C7 witness: five segments with two distinct azimuths turned an external
\* hip into complex.
C7_HipBecomesComplex ==
    /\ Returned
    /\ Len(Segs) > 4
    /\ UniqueAzimuths(Segs) < 3
    /\ roof_classification.roof_type = "hip"
    /\ estimate.roof_type = "complex"

\* C9: for building data that conforms to the data model, estimate_gutter_feet
\* returns a GutterEstimate and does not raise.
C9_ConformingInputReturns ==
    (pc \in {"returned", "raised"} /\ Conforms(building_data)) =>
        (Returned /\ estimate.returned /\ ~estimate.raised)

\* C9 witness: a conforming building without a whole-roof area, whose
\* segments span a box, got an estimate (line 200 decided before dividing).
C9_BoxWithoutAreaReturned ==
    /\ Returned
    /\ estimate.returned
    /\ Conforms(building_data)
    /\ building_data.wholeRoofArea = 0
    /\ BBoxPerimeter(Segs, building_data.center) > 0

\* the complexity factor lines 303-332 give a hip and a gable roof, in tenths
HalfPerimeterComplexity(roof_type) == IF roof_type = "hip" THEN 12 ELSE 10

\* C12 as stated: every resolved hip with a positive perimeter gets
\* (perimeter x 0.5, 1.2) and every resolved gable with a positive perimeter
\* gets (perimeter x 0.5, 1.0).
C12_HipGableHalfPerimeter ==
    (/\ Returned
     /\ estimate.roof_type \in {"hip", "gable"}
     /\ estimate.perimeter_m > 0) =>
        /\ estimate.eave_length_ft = EaveFeet(estimate.perimeter_m \div 2)
        /\ estimate.complexity_factor
             = HalfPerimeterComplexity(estimate.roof_type)

\* C12 amended: a resolved hip or gable with a positive perimeter gets
\* (perimeter x 0.5, 1.2 or 1.0) when at least one segment was processed, and
\* (0, 1.0) when none was.
C12_HipGableHalfPerimeterWhenProcessed ==
    (/\ Returned
     /\ estimate.roof_type \in {"hip", "gable"}
     /\ estimate.perimeter_m > 0) =>
        IF Len(Locals.processed_segments) > 0
        THEN /\ estimate.eave_length_ft
                  = EaveFeet(estimate.perimeter_m \div 2)
             /\ estimate.complexity_factor
                  = HalfPerimeterComplexity(estimate.roof_type)
        ELSE /\ estimate.eave_length_ft = 0
             /\ estimate.complexity_factor = 10

\* C12 witness: a gable with processed segments and a positive perimeter got
\* half the perimeter.
C12_GableWithSegments ==
    /\ Returned
    /\ estimate.roof_type = "gable"
    /\ estimate.perimeter_m > 0
    /\ Len(Locals.processed_segments) > 0
    /\ estimate.eave_length_ft = EaveFeet(estimate.perimeter_m \div 2)

\* base = max(2, ceil(eave length in feet / 45))
DownspoutsBase(total_eave_m) ==
    Max2(2, CeilDiv(MicroFeet(total_eave_m), FeetPerDownspout * 1000000))

\* the adjustment of the base by roof type, in tenths; 0 where the type has
\* a fixed count
DownspoutsTenths(roof_type, base) ==
    CASE roof_type \in {"gable", "gambrel"} -> base * 9
      [] roof_type \in {"hip", "mansard"} -> base * 11
      [] roof_type = "complex" -> base * 12
      [] OTHER -> 0

DownspoutsFloor(roof_type) ==
    IF roof_type \in {"gable", "gambrel"} THEN 2 ELSE 4

\* C13 as stated: downspouts_estimate is 1 for flat, 2 for shed, the base
\* for an unlisted type, and otherwise max(floor, round(base x factor)) with
\* round to the nearest integer.
C13_DownspoutsRoundedToNearest ==
    Returned =>
        estimate.downspouts_estimate
            = estimate_downspouts_rounded(estimate.roof_type,
                                          Locals.total_eave_m)

\* C13 amended: the same table with the product truncated toward zero
\* (int()) instead of rounded.
C13_DownspoutsTruncated ==
    Returned =>
        LET base == DownspoutsBase(Locals.total_eave_m)
            roof_type == estimate.roof_type
        IN  estimate.downspouts_estimate
              = CASE roof_type = "flat" -> 1
                  [] roof_type = "shed" -> 2
                  [] roof_type \in {"gable", "gambrel", "hip", "mansard",
                                    "complex"} ->
                         Max2(DownspoutsFloor(roof_type),
                              DownspoutsTenths(roof_type, base) \div 10)
                  [] OTHER -> base

\* C13 witness: a returned estimate whose adjusted base has a fractional part
\* above one half and lies above the floor, so that truncating and rounding
\* differ.
C13_FractionAboveHalf ==
    /\ Returned
    /\ estimate.roof_type \in {"gable", "gambrel", "hip", "mansard", "complex"}
    /\ DownspoutsTenths(estimate.roof_type,
                        DownspoutsBase(Locals.total_eave_m)) % 10 > 5
    /\ DownspoutsTenths(estimate.roof_type,
                        DownspoutsBase(Locals.total_eave_m)) \div 10
           >= DownspoutsFloor(estimate.roof_type)

\* lines 210-217 replaced the perimeter estimate by 20 or by 200
PerimeterClamped ==
    LET raw == RawPerimeter(Segs, building_data.center,
                            building_data.wholeRoofArea)
    IN  ClampPerimeter(raw) # raw

\* lines 338-344 replaced the segment eave sum by 0.9 x perimeter
SegmentSumCapped ==
    /\ Len(Locals.processed_segments) > 0
    /\ ~(estimate.roof_type \in {"hip", "gable"} /\ estimate.perimeter_m > 0)
    /\ CappedSegmentSum(SumEaves(Locals.processed_segments),
                        estimate.perimeter_m)
           # SumEaves(Locals.processed_segments)

\* C14 as stated: whenever the perimeter was clamped, the segment sum capped
\* or the final 1.3 x perimeter guard applied, the warnings list of the
\* returned estimate holds a warning.
C14_ClampLeavesWarning ==
    (/\ Returned
     /\ PerimeterClamped \/ SegmentSumCapped \/ Locals.capped) =>
        estimate.warnings # <<>>

\* A = 4 x sqrt(wholeRoofArea), 0 when the area is absent
AreaValue ==
    IF building_data.wholeRoofArea > 0
    THEN AreaPerimeter(building_data.wholeRoofArea) ELSE 0

\* B = the perimeter of the union bounding box of all segments
BBoxValue == BBoxPerimeter(Segs, building_data.center)

\* B and A are both known and differ by 30% of A or more
LargeDisagreement ==
    /\ AreaValue > 0
    /\ BBoxValue > 0
    /\ 10 * Abs(BBoxValue - AreaValue) >= 3 * AreaValue

\* C19: the perimeter returned is the clamp of B when B > 0 and either A = 0
\* or |B - A| / A < 0.3, and the clamp of A otherwise; a B that disagrees with
\* A by 30% or more never replaces it.
C19_BBoxReplacesAreaOnlyWithinThirtyPercent ==
    Returned =>
        LET A == AreaValue
            B == BBoxValue
        IN  /\ estimate.perimeter_m
                 = ClampPerimeter(
                       IF B > 0 /\ (A = 0 \/ 10 * Abs(B - A) < 3 * A)
                       THEN B ELSE A)
            /\ (A > 0 /\ B > 0 /\ 10 * Abs(B - A) >= 3 * A) =>
                   estimate.perimeter_m = ClampPerimeter(A)

\* C19 witness: a bounding box value 30% or more away from the area value,
\* with a different clamp, was left aside.
C19_DisagreeingBoxLeftAside ==
    /\ Returned
    /\ LargeDisagreement
    /\ ClampPerimeter(BBoxValue) # ClampPerimeter(AreaValue)
    /\ estimate.perimeter_m = ClampPerimeter(AreaValue)

\* the resolved type and the perimeter send the eave calculator to the
\* segment-sum path
SegmentSumPath ==
    \/ estimate.roof_type \notin {"hip", "gable"}
    \/ estimate.perimeter_m = 0

\* the sum of the processed segments' eave lengths
ProcessedEaveSum == SumEaves(Locals.processed_segments)

\* C18: for a resolved type other than hip and gable, and for hip and gable
\* with perimeter 0, the eave is the sum of the processed segments' eaves, or
\* 0.9 x perimeter when the perimeter is positive and the sum exceeds
\* 1.2 x perimeter; the complexity factor is 1.0 for at most 2 processed
\* segments, 1.2 for 3 or 4 and 1.4 for more.
C18_SegmentSumWithCap ==
    (Returned /\ SegmentSumPath) =>
        LET processed_segments == Locals.processed_segments
            segment_eave_sum == SumEaves(processed_segments)
        IN  /\ estimate.eave_length_ft
                 = EaveFeet(IF /\ estimate.perimeter_m > 0
                               /\ 10 * segment_eave_sum
                                    > 12 * estimate.perimeter_m
                            THEN (estimate.perimeter_m * 9) \div 10
                            ELSE segment_eave_sum)
            /\ estimate.complexity_factor
                 = (IF Len(processed_segments) <= 2 THEN 10
                    ELSE IF Len(processed_segments) <= 4 THEN 12
                    ELSE 14)

\* C18 witness: on the segment-sum path a sum above 1.2 x perimeter was
\* replaced by 0.9 x perimeter, with more than 4 processed segments.
C18_SumCappedOfFiveSegments ==
    /\ Returned
    /\ SegmentSumPath
    /\ estimate.perimeter_m > 0
    /\ Len(Locals.processed_segments) > 4
    /\ 10 * ProcessedEaveSum > 12 * estimate.perimeter_m
    /\ estimate.complexity_factor = 14
    /\ estimate.eave_length_ft = EaveFeet((estimate.perimeter_m * 9) \div 10)

\* the raw segment a processed segment was made of
RawSegment(p) == Segment(p.area_m2, p.pitch_degrees, p.azimuth, p.bbox)

\* the bounding-box value of a processed segment: the longer span, divided
\* by cos(pitch) when the pitch is positive
BBoxValueOf(p) ==
    BBoxEave(RawSegment(p),
             calculate_meters_per_degree(Latitude(building_data.center)))

\* perimeter x (segment area / total segment area) x 0.25, 0 without areas
ProportionalValueOf(p) ==
    IF SumAreas(Segs) > 0
    THEN (estimate.perimeter_m * p.area_m2) \div (4 * SumAreas(Segs))
    ELSE 0

\* C20: the eave of every processed segment is its bounding-box value when
\* that is positive, whatever its area; otherwise its area-based value when
\* its area is positive; otherwise the perimeter-proportional value. A later
\* method is never used when an earlier one yields a positive value.
C20_EaveByStrictPriority ==
    Returned =>
        LET processed_segments == Locals.processed_segments
        IN  \A i \in 1..Len(processed_segments) :
                LET p == processed_segments[i]
                    bbox_value == BBoxValueOf(p)
                IN  p.eave_m
                      = IF bbox_value > 0 THEN bbox_value
                        ELSE IF p.area_m2 > 0
                             THEN calculate_eave_length_from_area(
                                      p.area_m2, p.pitch_degrees)
                             ELSE ProportionalValueOf(p)

\* C20 witness: a processed segment with a positive area and a box took the
\* bounding-box value, which differs from its area-based value.
C20_BoxValueDespiteArea ==
    /\ Returned
    /\ LET processed_segments == Locals.processed_segments
       IN  \E i \in 1..Len(processed_segments) :
               LET p == processed_segments[i]
               IN  /\ p.area_m2 > 0
                   /\ BBoxValueOf(p) > 0
                   /\ p.eave_m = BBoxValueOf(p)
                   /\ p.eave_m # calculate_eave_length_from_area(
                                     p.area_m2, p.pitch_degrees)

\* C21 as stated: every processed segment has depth_m = area / eave_m when
\* eave_m > 0 and depth_m = 0 when eave_m = 0, and every input segment,
\* also one with eave_m = 0, is in the processed list.
C21_DepthZeroWithoutEave ==
    Returned =>
        LET processed_segments == Locals.processed_segments
        IN  /\ Len(processed_segments) = Len(Segs)
            /\ \A i \in 1..Len(processed_segments) :
                   LET p == processed_segments[i]
                   IN  p.depth_m = IF p.eave_m > 0
                                   THEN (p.area_m2 * 100) \div p.eave_m
                                   ELSE 0

\* the i-th input segment has a positive eave length: its box has a positive
\* span or its area is positive
InputEavePositive(i) ==
    \/ Segs[i].groundAreaMeters2 > 0
    \/ BBoxEave(Segs[i],
                calculate_meters_per_degree(Latitude(building_data.center))) > 0

\* processing the i-th input segment raises: its eave length is 0 and no
\* segment up to it has assigned depth_m
SegmentRaises(i) == \A j \in 1..i : ~InputEavePositive(j)

\* the input segments whose processing does not raise, in input order
RECURSIVE SegmentsKept(_)
SegmentsKept(i) ==
    IF i > Len(Segs) THEN <<>>
    ELSE IF SegmentRaises(i) THEN SegmentsKept(i + 1)
    ELSE <<Segs[i]>> \o SegmentsKept(i + 1)

\* C22: a segment whose processing raises is the only one omitted: the
\* processed list holds every other input segment, in input order, and an
\* invocation raises only for a reason outside the segment loop.
C22_OnlyRaisingSegmentOmitted ==
    /\ Returned =>
          LET processed_segments == Locals.processed_segments
          IN  [i \in 1..Len(processed_segments) |->
                   RawSegment(processed_segments[i])] = SegmentsKept(1)
    /\ pc = "raised" => building_data.wholeRoofArea < 0

\* C22 witness: the first segment raised, later segments were processed, a
\* segment without eave among them.
C22_ProcessedAfterRaise ==
    /\ Returned
    /\ Len(Segs) >= 3
    /\ SegmentRaises(1)
    /\ Len(Locals.processed_segments) >= 2
    /\ \E i \in 1..Len(Locals.processed_segments) :
           Locals.processed_segments[i].eave_m = 0

\* C25: the final overestimation guard never changes the result: for every
\* returned estimate with a positive perimeter the total computed before the
\* guard is not above 1.3 x the perimeter in feet, the total returned is that
\* total, and eave_length_ft is the total eave length x 3.28084.
C25_FinalGuardNeverFires ==
    (Returned /\ Locals.perimeter_m > 0) =>
        /\ ~ExceedsMaxGutter(Locals.uncapped_total_ft, Locals.perimeter_m)
        /\ ~Locals.capped
        /\ Locals.total_gutter_ft = Locals.uncapped_total_ft
        /\ Locals.eave_length_ft = EaveFeet(Locals.total_eave_m)
        /\ estimate.total_gutter_ft = Locals.uncapped_total_ft
        /\ estimate.eave_length_ft = EaveFeet(Locals.total_eave_m)


\* C25 witness: a returned estimate whose eave length is above the
\* perimeter and whose waste factor is above 0.05, the guard passed without
\* acting.
C25_LongEaveLargeWaste ==
    /\ Returned
    /\ Locals.perimeter_m > 0
    /\ Locals.total_eave_m > Locals.perimeter_m
    /\ Locals.dynamic_waste_factor > 50
    /\ ~Locals.capped


\* C26: the perimeter-proportional fallback never yields a positive eave
\* length: a processed segment that reached it (no positive bounding-box
\* value, no positive area) has eave 0, so the eave of a processed segment
\* is positive exactly when its box has a positive span or its area is
\* positive.
C26_ProportionalShareNeverPositive ==
    Returned =>
        LET processed_segments == Locals.processed_segments
        IN  \A i \in 1..Len(processed_segments) :
                LET p == processed_segments[i]
                    bbox_value == BBoxValueOf(p)
                IN  /\ p.area_m2 >= 0
                    /\ (bbox_value = 0 /\ p.area_m2 = 0) =>
                           (p.eave_m = 0 /\ ProportionalValueOf(p) = 0)
                    /\ p.eave_m > 0 <=> (bbox_value > 0 \/ p.area_m2 > 0)

\* C26 witness: a processed segment reached the fallback with a positive
\* perimeter and a positive total segment area, and its eave is 0.
C26_FallbackReachedWithTotalArea ==
    /\ Returned
    /\ estimate.perimeter_m > 0
    /\ SumAreas(Segs) > 0
    /\ \E i \in 1..Len(Locals.processed_segments) :
           LET p == Locals.processed_segments[i]
           IN  /\ BBoxValueOf(p) = 0
               /\ p.area_m2 = 0
               /\ p.eave_m = 0


\* C27 as stated: for conforming building data every input segment yields
\* one processed segment, so the waste factor is the one of the number of
\* input segments.
C27_OneProcessedPerInput ==
    (Returned /\ Conforms(building_data)) =>
        /\ Len(Locals.processed_segments) = Len(Segs)
        /\ estimate.waste_factor
             = calculate_dynamic_waste_factor(
                   estimate.roof_type, estimate.complexity_factor, Len(Segs))

----------------------------------------------------------------------------
(* Claims about classify_roof_type, checked under SpecFlow *)

UpstreamSteps == <<"geocode", "building_insights", "data_layers">>

FusedWithSegments == flow.fusion.ran /\ Len(Segs) > 0

\* g > a, for the floating-point g the code compares
GeometryAboveAI ==
    \/ flow.fusion.geometry.confidence > flow.fusion.ai.confidence
    \/ /\ flow.fusion.geometry.confidence = flow.fusion.ai.confidence
       /\ flow.fusion.geometry.above_decimal

\* the branches of the fusion rule whose condition holds, each taken with
\* the negation of the conditions before it
FusionBranches ==
    LET a == flow.fusion.ai.confidence
        g == flow.fusion.geometry.confidence
    IN  {b \in {"geometry", "average", "ai"} :
            \/ b = "geometry" /\ g > a + 150
            \/ b = "average" /\ ~(g > a + 150) /\ GeometryAboveAI
            \/ b = "ai" /\ ~GeometryAboveAI}

\* C15: with roof segments, the fusion returns (geometry type, g) if
\* g > a + 0.15, else (geometry type, (a + g) / 2) if g > a, otherwise
\* (AI type, max(a, g x 0.9)); exactly one branch applies.
C15_FusionByThreeBranches ==
    FusedWithSegments =>
        LET a == flow.fusion.ai.confidence
            g == flow.fusion.geometry.confidence
        IN  /\ Cardinality(FusionBranches) = 1
            /\ "geometry" \in FusionBranches =>
                   flow.fusion.validated
                     = Classification(flow.fusion.geometry.roof_type, g)
            /\ "average" \in FusionBranches =>
                   flow.fusion.validated
                     = Classification(flow.fusion.geometry.roof_type,
                                      (a + g) \div 2)
            /\ "ai" \in FusionBranches =>
                   flow.fusion.validated
                     = Classification(flow.fusion.ai.roof_type,
                                      Max2(a, (g * 9) \div 10))

\* C15 witness: a geometry confidence above the AI confidence by no more than
\* 0.15 replaced the AI type by a different geometry type, with the average
\* of the two confidences.
C15_AveragedWithGeometryType ==
    /\ FusedWithSegments
    /\ FusionBranches = {"average"}
    /\ flow.fusion.geometry.roof_type # flow.fusion.ai.roof_type
    /\ flow.fusion.validated.roof_type = flow.fusion.geometry.roof_type
    /\ flow.fusion.validated.confidence
         = (flow.fusion.ai.confidence + flow.fusion.geometry.confidence) \div 2

\* the fusion ran on a building without roof segments
FusedWithoutSegments == flow.fusion.ran /\ Len(Segs) = 0

\* C16 as stated: without roof segments the fusion step returns the AI type
\* with the AI confidence multiplied by 0.8, and the classification the flow
\* reports carries that penalised confidence.
C16_PenalisedConfidenceReported ==
    FusedWithoutSegments =>
        /\ flow.fusion.validated
             = Classification(flow.fusion.ai.roof_type,
                              (flow.fusion.ai.confidence * 8) \div 10)
        /\ roof_classification.confidence
             = (flow.fusion.ai.confidence * 8) \div 10

\* the AI type equals the type the segment count predicts
TypesAgree == flow.fusion.ai.roof_type = flow.fusion.geometry.roof_type

\* the AI type gets neither a bonus of lines 291-297 nor a penalty of lines
\* 300-303: only the segment count moves the confidence
OnlyCountCounts ==
    /\ flow.fusion.ai.roof_type \notin {"gable", "hip", "unknown"}
    /\ ~TypesAgree

\* C17 as stated: the clear-case bonus is +0.15 for exactly 2 and for exactly
\* 4 segments, agreement of the types adds +0.1, and the result lies in
\* [0.3, 0.95].
C17_SameBonusForTwoAndFour ==
    FusedWithSegments =>
        /\ (Len(Segs) \in {2, 4} /\ OnlyCountCounts) =>
               flow.fusion.geometry.confidence = 800 + 150
        /\ (Len(Segs) \in {2, 4} /\ TypesAgree) =>
               flow.fusion.geometry.confidence = Min2(950, 800 + 150 + 100)
        /\ flow.fusion.geometry.confidence >= 300
        /\ flow.fusion.geometry.confidence <= 950

\* the bonus lines 281-288 add for the segment count
ClarityBonus(segment_count) ==
    IF segment_count = 2 THEN 150
    ELSE IF segment_count \in {3, 4, 5} THEN 100
    ELSE IF segment_count > 5 THEN -100
    ELSE 0

\* C17 amended: the bonus is +0.15 for exactly 2 segments and +0.1 for 3, 4
\* or 5 (0 for 1, -0.1 above 5), agreement of the types adds +0.1, and the
\* result is clamped to [0.4, 0.95].
C17_BonusByExactCount ==
    FusedWithSegments =>
        /\ OnlyCountCounts =>
               flow.fusion.geometry.confidence
                 = Max2(400, Min2(950, 800 + ClarityBonus(Len(Segs))))
        /\ TypesAgree =>
               flow.fusion.geometry.confidence
                 = Max2(400, Min2(950, 800 + ClarityBonus(Len(Segs)) + 100))
        /\ flow.fusion.geometry.confidence >= 400
        /\ flow.fusion.geometry.confidence <= 950

\* C17 witness: 4 segments and an AI type with no bonus and no penalty gave
\* 0.8 + 0.1.
C17_FourSegmentsGetTenth ==
    /\ FusedWithSegments
    /\ Len(Segs) = 4
    /\ OnlyCountCounts
    /\ flow.fusion.geometry.confidence = 900


\* step 5 is over and the AI call, or the parsing of its answer, raised
AIStepFailed ==
    /\ \E i \in 1..Len(flow.trace) : flow.trace[i] = "classify"
    /\ ~flow.fusion.ran

\* C24: when the AI step fails the classification is the fallback one (the
\* type derived from the segment count with confidence 0.7 when there are
\* segments, otherwise unknown with 0.3), the request does not fail, and the
\* gutter calculator is invoked with that classification and returns.
C24_FallbackKeepsRequestAlive ==
    AIStepFailed =>
        /\ roof_classification
             = IF Len(Segs) > 0
               THEN Classification(
                        simple_segment_based_classification(Len(Segs)), 700)
               ELSE Classification("unknown", 300)
        /\ pc # "flow_raised"
        /\ pc = "flow_returned" =>
              /\ flow.invoked
              /\ estimate.returned
              /\ ~estimate.raised
              /\ estimate.confidence = roof_classification.confidence

\* C24 witness: a request whose AI step failed on a building with segments
\* returned an estimate made with the fallback classification.
C24_ReturnedAfterAIFailure ==
    /\ AIStepFailed
    /\ pc = "flow_returned"
    /\ Len(Segs) > 0
    /\ roof_classification.confidence = 700
    /\ estimate.returned
    /\ estimate.confidence = 700


\* C28 as stated: in every successful response the roof type of the gutter
\* estimate equals the roof type of the roof classification.
C28_SameRoofTypeInResponse ==
    (pc = "flow_returned" /\ estimate.returned) =>
        estimate.roof_type = roof_classification.roof_type


\* C29: when the AI call succeeds the confidence of the classification
\* returned is not below the confidence parsed from the AI answer, with or
\* without segments, and its roof type differs from the AI type only when
\* the validation confidence is strictly above the AI confidence.
C29_ConfidenceNeverBelowAI ==
    flow.fusion.ran =>
        /\ roof_classification.confidence >= flow.fusion.ai.confidence
        /\ roof_classification.roof_type # flow.fusion.ai.roof_type =>
               /\ flow.fusion.validated.confidence > flow.fusion.ai.confidence
               /\ roof_classification.roof_type
                    = flow.fusion.validated.roof_type

\* C29 witness: the validation returned another type than the AI with a
\* confidence equal to the AI confidence, and the AI type was kept.
C29_TieKeepsAIType ==
    /\ flow.fusion.ran
    /\ flow.fusion.validated.roof_type # flow.fusion.ai.roof_type
    /\ flow.fusion.validated.confidence = flow.fusion.ai.confidence
    /\ roof_classification.roof_type = flow.fusion.ai.roof_type


\* C30: with at least one segment the geometry confidence is at least 0.7,
\* so an AI confidence below 0.7 always yields the type derived from the
\* segment count; an AI confidence of at least 0.95 always keeps the AI type.
C30_LowAIYieldsGeometryHighAIKept ==
    flow.fusion.ran =>
        /\ Len(Segs) > 0 =>
               /\ flow.fusion.geometry.confidence >= 700
               /\ flow.fusion.geometry.confidence
                    = SimpleConfidenceSum(
                          Len(Segs), flow.fusion.ai.roof_type,
                          flow.fusion.geometry.roof_type)
                  \/ flow.fusion.geometry.confidence = 950
        /\ (Len(Segs) > 0 /\ flow.fusion.ai.confidence < 700) =>
               roof_classification.roof_type
                 = simple_segment_based_classification(Len(Segs))
        /\ flow.fusion.ai.confidence >= 950 =>
               roof_classification.roof_type = flow.fusion.ai.roof_type

\* C30 witness: the smallest geometry confidence, 0.7 for more than five
\* segments and a disagreeing AI type, replaced an AI type of confidence
\* below 0.7.
C30_SmallestGeometryConfidenceWins ==
    /\ flow.fusion.ran
    /\ Len(Segs) > 5
    /\ flow.fusion.geometry.confidence = 700
    /\ flow.fusion.ai.confidence < 700
    /\ roof_classification.roof_type = "complex"
    /\ flow.fusion.ai.roof_type # "complex"

----------------------------------------------------------------------------
(* Claims about concurrent invocations, checked under SpecConcurrent *)

\* C11: every concurrent invocation returns the estimate a sequential
\* invocation with the same arguments returns (and raises when that one
\* raises), whatever the other invocations do in between; no invocation
\* writes the instance.
C11_ConcurrentEqualsSequential ==
    /\ \A id \in CallIds :
          calls[id].stage \in {"returned", "raised"} =>
              calls[id].estimate
                = estimate_gutter_feet(calls[id].building_data,
                                       calls[id].roof_classification)
    /\ instance = NewInstance

\* C11 witness: two invocations with different arguments were under way at
\* the same time and the first returned while the second was in the middle
\* of its computation.
C11_ReturnedWhileOtherRuns ==
    /\ calls[1].stage = "returned"
    /\ calls[2].stage \in {"segments", "eave", "waste", "convert"}
    /\ calls[1].building_data # calls[2].building_data
    /\ calls[1].roof_classification # calls[2].roof_classification
    /\ calls[1].estimate.returned


----------------------------------------------------------------------------
(* Claims about the geometry predictions, checked under SpecGeometry *)

\* both predictions have been made for the building
BothPredicted == prediction.predicted /\ prediction.classified

\* both predictions gave this roof type
BothGive(roof_type) ==
    /\ prediction.geometry_type = roof_type
    /\ prediction.simple_type = roof_type

\* C23 as stated: _predict_roof_type_from_geometry and
\* _simple_segment_based_classification both give gable for 2 segments with
\* 2 distinct azimuths, gable for 3 segments also when the 3 azimuths are
\* distinct, hip for 4 segments with 4 distinct azimuths and no pitch above
\* 45 degrees, and complex for 6 segments with 6 distinct azimuths.
C23_BothPredictionsAsTested ==
    BothPredicted =>
        /\ (Len(Segs) = 2 /\ UniqueAzimuths(Segs) = 2) => BothGive("gable")
        /\ Len(Segs) = 3 => BothGive("gable")
        /\ (/\ Len(Segs) = 4
            /\ UniqueAzimuths(Segs) = 4
            /\ \A i \in 1..Len(Segs) : Segs[i].pitchDegrees <= 45) =>
               BothGive("hip")
        /\ (Len(Segs) = 6 /\ UniqueAzimuths(Segs) = 6) => BothGive("complex")

====
